---- MODULE Spec2Model ----
(***************************************************************************)
(* Streaming buffer bridge and device-capability model of gr-osmosdr's     *)
(* HackRF source (lib/hackrf/hackrf_source_c.cc) and bladeRF source        *)
(* (bladerf_source_c.cc).                                                  *)
(*                                                                         *)
(* Data plane: one source object of either backend is constructed (Init    *)
(* chooses which), a producer context delivers buffers and a single        *)
(* consumer context calls work(noutput_items).  Every critical section of  *)
(* the code is one atomic step; the reads of _buf_head and the sample      *)
(* copies that work() of the HackRF source performs outside _buf_mutex are *)
(* steps of their own, so a producer callback can fall between them.       *)
(*                                                                         *)
(* Samples carry a ghost sequence number (seq): the position of the sample *)
(* in the stream the hardware delivered, 1, 2, 3, ...                      *)
(* Decoded components are kept as integer numerators: re/128 and im/128    *)
(* for the 8-bit lookup table, re/2048 and im/2048 for the 12-bit format.  *)
(***************************************************************************)
EXTENDS Integers, Sequences, FiniteSets, TLC

\* ------------------------------------------------------------------ bounds

\* Values of the "buffers" device argument (slab count _buf_num) explored.
BufNums == {1, 2, 3, 4}

\* Samples per slab, _buf_len / BYTES_PER_SAMPLE, scaled down.
SlabLen == 2

\* Producer deliveries (HackRF callbacks, bladeRF full blocks) per behaviour.
MaxPush == 5

\* Largest noutput_items the scheduler requests.
MaxN == 6

\* BLADERF_SAMPLE_BLOCK_SIZE, scaled down.
BlockSize == 2

\* Capacity of the bladeRF sample FIFO, scaled down.
FifoCap == 5

\* First raw 16-bit word of the stream the hardware delivers; the following
\* words step on from it (RawAt).  32768 is the byte pair (0x00, 0x80), 511
\* the pair (0xFF, 0x01); 2049 is 0x801 and 63487 is 0xF7FF.
RawWords == {32768, 511}
RawWords12 == {2049, 63487}

\* ------------------------------------------------------- program constants

WORK_DONE == -1

\* the last index of _lut: every 16-bit word a slab can hold
MaxWord == 65535

\* "collect at least 3 buffers"
MinFill == 3

\* ------------------------------------------------------------------- state

VARIABLES
    backend,        \* "hackrf" or "bladerf": the class that was constructed
    \* hackrf_source_c
    buf_num,        \* _buf_num
    buf,            \* _buf: slab index -> sequence of SlabLen raw samples
    buf_head,       \* _buf_head
    buf_used,       \* _buf_used
    buf_offset,     \* _buf_offset
    samp_avail,     \* _samp_avail
    streaming,      \* hackrf_is_streaming( _dev ) == HACKRF_TRUE
    \* bladerf_source_c
    sample_fifo,    \* sample_fifo: sequence of decoded samples
    running,        \* is_running()
    \* the consumer's call of work()
    w_pc,           \* "idle", "check", "locked", "wait", "deref1", "copy1",
                    \* "lock2", "deref2", "copy2"
    noutput_items,  \* argument of the call in progress (or of the last call)
    w_running,      \* HackRF work(): the local variable running
    w_buf,          \* HackRF work(): slab index the local pointer buf points into
    w_race,         \* the producer wrote the slab w_buf during the copy window
    out,            \* samples written to output_items[0] by the call
    ret,            \* return value of the last finished call, 0 while none
    notified,       \* a notify_one() has reached the waiting consumer
    \* ghosts
    stream,         \* first raw word of the stream the hardware delivers
    pushes,         \* number of full buffers the producer was handed so far
    overruns,       \* number of "O" overrun notifications written
    w_seen,         \* unread samples queued when the call left its wait loop
    pops,           \* number of slabs the HackRF consumer has released
    w_entry,        \* what the call found at entry: stopped (the device was not
                    \* streaming), unread (samples queued), pushes, taken
                    \* (samples the calls before it returned)
    \* hackrf_source_c control plane (DeviceState)
    sample_rate,    \* _sample_rate
    center_freq,    \* _center_freq
    freq_corr,      \* _freq_corr
    auto_gain,      \* _auto_gain
    amp_gain,       \* _amp_gain
    lna_gain,       \* _lna_gain
    vga_gain,       \* _vga_gain
    bandwidth,      \* _bandwidth
    hw,             \* the value the hardware last acknowledged, per parameter
    c_call,         \* the last control-plane call: op, hw_ok (no hardware write
                    \* of the call was refused), thrown (it raised an error),
                    \* param and sent (the hardware write it issued), ret
    \* life cycle
    usage,          \* hackrf_source_c::_usage
    lib_up,         \* hackrf_init() was called and hackrf_exit() not since
    alive,          \* instances constructed and not yet destroyed
    ctors,          \* constructors past the _usage section and not finished
    gd_calls,       \* get_devices() calls between their two _usage sections
    c_ctor,         \* the newest constructor call: pc (the hardware call it is
                    \* at, "idle" once it has finished), failed (its hardware
                    \* call that failed, "none" if none did), returned (an
                    \* instance was returned)
    \* the queue mutex (_buf_mutex, sample_fifo_lock)
    mutex,          \* its owner: "free", "producer" or "consumer"
    p_pc,           \* the producer's push: "idle", "lock" (it waits for the
                    \* mutex), "held" (it owns the mutex)
    \* antenna bias
    biasT,          \* _biasT
    hw_bias         \* the antenna enable the hardware last acknowledged

vars == <<backend, buf_num, buf, buf_head, buf_used, buf_offset, samp_avail,
          streaming, sample_fifo, running, w_pc, noutput_items,
          w_running, w_buf, w_race, out, ret, notified, stream, pushes,
          overruns, w_seen, pops, w_entry, sample_rate, center_freq,
          freq_corr, auto_gain, amp_gain, lna_gain, vga_gain, bandwidth, hw,
          c_call, usage, lib_up, alive, ctors, gd_calls, c_ctor, mutex,
          p_pc, biasT, hw_bias>>

hackrf_vars == <<buf_num, buf, buf_head, buf_used, buf_offset, samp_avail,
                 streaming>>

bladerf_vars == <<sample_fifo, running>>

\* The cached device parameters.
DeviceState == <<sample_rate, center_freq, freq_corr, amp_gain, lna_gain,
                 vga_gain, bandwidth>>

ctl_vars == <<sample_rate, center_freq, freq_corr, auto_gain, amp_gain,
              lna_gain, vga_gain, bandwidth, hw, c_call>>

\* The mutex and the producer's position change in the steps that take and
\* release the mutex one at a time and nowhere else.
lock_vars == <<mutex, p_pc>>

lib_vars == <<usage, lib_up, alive, ctors, gd_calls, c_ctor>>

\* The antenna bias: changed by the constructor's bias block and by
\* set_biast() and nowhere else.
bias_vars == <<biasT, hw_bias>>

\* What the data plane and the control plane leave alone.
life_vars == <<lib_vars, lock_vars, bias_vars>>

queue_vars == <<backend, buf_num, buf, buf_head, buf_used, buf_offset,
                samp_avail, streaming, sample_fifo, running, w_pc,
                noutput_items, w_running, w_buf, w_race, out, ret, notified,
                stream, pushes, overruns, w_seen, pops, w_entry>>

\* What the control plane and the life cycle leave alone.
data_vars == <<queue_vars, lock_vars, bias_vars>>

\* _dev: the handle hackrf_open returned; it stays set until the destructor.
dev == TRUE

\* ----------------------------------------------------------------- samples

\* A raw sample whose storage was never written by the producer.
Uninit == [seq |-> 0, raw |-> 0]

\* What a read past the end of a slab yields: anything.
OobSample == [seq |-> 0 - 1, re |-> 0, im |-> 0]

\* What a read of a slab the producer is writing concurrently yields: anything.
RaceSample == [seq |-> 0 - 2, re |-> 0, im |-> 0]

\* A byte read as unsigned.
U8(b) == b

\* The low 12 bits of a word taken without sign extension.
Low12(x) == x % 4096

\* int8_t(b) of a byte b in 0..255
S8(b) == IF b >= 128 THEN b - 256 ELSE b

\* _lut[i] on a little-endian host, as numerators over 128
lut(i) == <<S8(i % 256), S8(i \div 256)>>

\* 12-bit sign extension: x & 0xfff, then |= 0xf000 when bit 11 is set,
\* read as int16_t
SignExtend12(x) ==
    LET v == x % 4096
    IN  IF v >= 2048 THEN v - 4096 ELSE v

\* The j-th 16-bit word (j = 0, 1, ...) of the stream the hardware delivers.
RawAt(j) == (stream + j * 4369) % 65536

\* The k-th buffer the HackRF transport delivers: SlabLen raw samples.
Transfer(k) ==
    [i \in 1..SlabLen |->
        [seq |-> (k - 1) * SlabLen + i, raw |-> RawAt((k - 1) * SlabLen + i - 1)]]

\* The k-th full block bladerf_read_c16 delivers: interleaved I and Q words.
Block(k) ==
    [i \in 1..BlockSize |->
        [seq |-> (k - 1) * BlockSize + i,
         si  |-> RawAt(2 * ((k - 1) * BlockSize + i - 1)),
         sq  |-> RawAt(2 * ((k - 1) * BlockSize + i - 1) + 1)]]

\* gr_complex the HackRF work() writes for a raw slab entry
DecodeLut(s) == [seq |-> s.seq, re |-> lut(s.raw)[1], im |-> lut(s.raw)[2]]

\* gr_complex read_task builds from one raw I/Q pair
Decode12(s) ==
    [seq |-> s.seq, re |-> SignExtend12(s.si), im |-> SignExtend12(s.sq)]

\* *(buf + i) for buf = _buf[slab] + 0, i = idx, decoded through _lut
SampleAt(slab, idx) ==
    IF idx < 0 \/ idx >= SlabLen THEN OobSample
    ELSE IF w_race THEN RaceSample
    ELSE DecodeLut(buf[slab][idx + 1])

\* the loop  for (i = 0; i < cnt; ++i) *out++ = _lut[ *(buf + i) ]
\* with buf = _buf[slab] + off
CopyOut(slab, off, cnt) ==
    IF cnt <= 0 THEN <<>>
    ELSE [i \in 1..cnt |-> SampleAt(slab, off + i - 1)]

\* ------------------------------------------------------------ frequencies

\* A frequency in Hz, held as whole MHz and the Hz below the next MHz: the
\* code's doubles and uint64_t reach 7250e6, beyond the integers of the
\* checker.
Freq(m, h) == [mhz |-> m, hz |-> h]

\* m MHz + h Hz for any integer h
Norm(m, h) == Freq(m + h \div 1000000, h % 1000000)

\* a number of Hz below 2^31
FromHz(n) == Norm(0, n)

\* a + b, a - b, a / 2.0 with the fraction dropped
FreqAdd(a, b) == Norm(a.mhz + b.mhz, a.hz + b.hz)
FreqSub(a, b) == Norm(a.mhz - b.mhz, a.hz - b.hz)
FreqHalf(a) == Norm(a.mhz \div 2, ((a.mhz % 2) * 1000000 + a.hz) \div 2)

\* a < b
FreqLess(a, b) == a.mhz < b.mhz \/ (a.mhz = b.mhz /\ a.hz < b.hz)

\* ------------------------------------------------------------------- Init

\* A source object whose construction succeeded: the data plane at rest; for
\* HackRF the DeviceState and the hardware hold the defaults the constructor
\* wrote, bladeRF caches nothing and has had no write acknowledged.
InitObjectOn(words8, words12) ==
    /\ backend \in {"hackrf", "bladerf"}
    /\ buf_num \in (IF backend = "hackrf" THEN BufNums ELSE {1})
    /\ buf = [s \in 0..(buf_num - 1) |-> [i \in 1..SlabLen |-> Uninit]]
    /\ buf_head = 0
    /\ buf_used = 0
    /\ buf_offset = 0
    /\ samp_avail = SlabLen
    /\ streaming = (backend = "hackrf")
    /\ sample_fifo = <<>>
    /\ running = (backend = "bladerf")
    /\ w_pc = "idle"
    /\ noutput_items = 0
    /\ w_running = FALSE
    /\ w_buf = 0
    /\ w_race = FALSE
    /\ out = <<>>
    /\ ret = 0
    /\ notified = FALSE
    /\ stream \in (IF backend = "hackrf" THEN words8 ELSE words12)
    /\ pushes = 0
    /\ overruns = 0
    /\ w_seen = 0
    /\ pops = 0
    /\ w_entry = [stopped |-> FALSE, unread |-> 0, pushes |-> 0, taken |-> 0]
    /\ sample_rate = (IF backend = "hackrf" THEN 8000000 ELSE 0)
    /\ center_freq = (IF backend = "hackrf" THEN Freq(3625, 0) ELSE Freq(0, 0))
    /\ freq_corr = 0
    /\ auto_gain = FALSE
    /\ amp_gain = 0
    /\ lna_gain = (IF backend = "hackrf" THEN 16 ELSE 0)
    /\ vga_gain = (IF backend = "hackrf" THEN 20 ELSE 0)
    /\ bandwidth = (IF backend = "hackrf" THEN 6000000 ELSE 0)
    /\ hw = [rate |-> sample_rate, freq |-> center_freq, amp |-> 0,
             lna |-> lna_gain, vga |-> vga_gain, bw |-> bandwidth, vga1 |-> 0]
    /\ c_call = [op |-> "none", hw_ok |-> TRUE, thrown |-> FALSE,
                 param |-> "none", sent |-> 0, sent_freq |-> Freq(0, 0),
                 ret |-> 0, ret_freq |-> Freq(0, 0), ret_flag |-> FALSE]
    /\ mutex = "free"
    /\ p_pc = "idle"
    /\ biasT = FALSE
    /\ hw_bias = FALSE

\* The constructed source fed one of the streams the checks follow through
\* the whole data plane.
InitObject == InitObjectOn(RawWords, RawWords12)

\* The library state once one source object has been constructed: the
\* library is initialised and counts one user.
InitLibrary ==
    /\ usage = (IF backend = "hackrf" THEN 1 ELSE 0)
    /\ lib_up = (backend = "hackrf")
    /\ alive = 1
    /\ ctors = 0
    /\ gd_calls = 0
    /\ c_ctor = [pc |-> "idle", failed |-> "none", returned |-> TRUE]

\* One source object has been constructed: the library is initialised and
\* counts one user.
Init ==
    /\ InitObject
    /\ InitLibrary


\* ---------------------------------------------------------- HackRF producer

\* A callback that leaves the head where it is when the ring is full.
overrun_head_stuck(head, num) == head

\* hackrf_rx_callback(): _buf_head after an overrun
overrun_head(head, num) == (head + 1) % num

\* hackrf_rx_callback(buf, len) delivering the next full buffer
hackrf_rx_callback ==
    /\ backend = "hackrf"
    /\ streaming
    /\ pushes < MaxPush
    /\ LET buf_tail == (buf_head + buf_used) % buf_num
       IN  /\ buf' = [buf EXCEPT ![buf_tail] = Transfer(pushes + 1)]
           /\ w_race' = (w_race \/ (w_pc \in {"copy1", "copy2"} /\ w_buf = buf_tail))
           /\ IF buf_used = buf_num
              THEN /\ overruns' = overruns + 1
                   /\ buf_head' = overrun_head(buf_head, buf_num)
                   /\ UNCHANGED buf_used
              ELSE /\ buf_used' = buf_used + 1
                   /\ UNCHANGED <<overruns, buf_head>>
    /\ notified' = (notified \/ w_pc = "wait")
    /\ pushes' = pushes + 1
    /\ UNCHANGED <<ctl_vars, life_vars, backend, stream, buf_num, buf_offset, samp_avail, streaming,
                   bladerf_vars, w_pc, noutput_items, w_running, w_buf, out,
                   ret, w_seen, pops, w_entry>>

\* The device stops streaming (transfer error, unplug): hackrf_is_streaming
\* turns false and no further callback arrives.
hackrf_stop_streaming ==
    /\ backend = "hackrf"
    /\ streaming
    /\ streaming' = FALSE
    /\ UNCHANGED <<ctl_vars, life_vars, backend, buf_num, buf, buf_head, buf_used, buf_offset,
                   samp_avail, bladerf_vars, w_pc, noutput_items, w_running,
                   w_buf, w_race, out, ret, notified, stream, pushes, overruns, w_seen,
                   pops, w_entry>>

\* ---------------------------------------------------------- HackRF consumer

\* Samples returned by all calls of work() that have finished.
taken_so_far == w_entry.taken + (IF ret > 0 THEN ret ELSE 0)

\* Unread samples queued in the ring, as the read cursor sees them.
hackrf_unread ==
    IF buf_used = 0 THEN 0 ELSE samp_avail + (buf_used - 1) * SlabLen

\* An entry test that looks at the handle only.
hackrf_running_handle_only == dev

\* work(): running = false; if ( _dev ) running = hackrf_is_streaming( _dev )
hackrf_running == dev /\ streaming

\* work(): entry
hackrf_work_begin(n) ==
    /\ backend = "hackrf"
    /\ w_pc = "idle"
    /\ noutput_items' = n
    /\ w_running' = hackrf_running
    /\ w_entry' = [stopped |-> ~streaming, unread |-> hackrf_unread,
                    pushes |-> pushes, taken |-> taken_so_far]
    /\ out' = <<>>
    /\ ret' = 0
    /\ w_pc' = "check"
    /\ UNCHANGED <<ctl_vars, life_vars, backend, hackrf_vars, bladerf_vars, w_buf, w_race, notified,
                   stream, pushes, overruns, w_seen, pops>>

\* work(): the locked wait loop, one evaluation of its condition, and the
\* test of running that follows it
hackrf_work_check ==
    /\ backend = "hackrf"
    /\ w_pc = "check"
    /\ IF buf_used < MinFill /\ w_running
       THEN /\ w_pc' = "wait"
            /\ UNCHANGED <<ret, w_buf, w_race, w_seen>>
       ELSE IF ~w_running
       THEN /\ w_pc' = "idle"
            /\ ret' = WORK_DONE
            /\ UNCHANGED <<w_buf, w_race, w_seen>>
       ELSE /\ w_pc' = "deref1"
            /\ w_seen' = hackrf_unread
            /\ UNCHANGED <<ret, w_buf, w_race>>
    /\ UNCHANGED <<ctl_vars, life_vars, backend, hackrf_vars, bladerf_vars, noutput_items,
                   w_running, out, notified, stream, pushes, overruns, pops, w_entry>>

\* work(): buf = _buf[_buf_head] + _buf_offset before the first copy and
\* buf = _buf[_buf_head] before the second, both read outside the mutex
hackrf_work_deref ==
    /\ backend = "hackrf"
    /\ w_pc \in {"deref1", "deref2"}
    /\ w_buf' = buf_head
    /\ w_race' = FALSE
    /\ w_pc' = (IF w_pc = "deref1" THEN "copy1" ELSE "copy2")
    /\ UNCHANGED <<ctl_vars, life_vars, backend, hackrf_vars, bladerf_vars, noutput_items,
                   w_running, out, ret, notified, stream, pushes, overruns,
                   w_seen, pops, w_entry>>

\* work(): the copy out of the head slab, outside the mutex
hackrf_work_copy1 ==
    /\ backend = "hackrf"
    /\ w_pc = "copy1"
    /\ IF noutput_items <= samp_avail
       THEN /\ out' = CopyOut(w_buf, buf_offset, noutput_items)
            /\ buf_offset' = buf_offset + noutput_items
            /\ samp_avail' = samp_avail - noutput_items
            /\ ret' = noutput_items
            /\ w_pc' = "idle"
       ELSE /\ out' = CopyOut(w_buf, buf_offset, samp_avail)
            /\ w_pc' = "lock2"
            /\ UNCHANGED <<buf_offset, samp_avail, ret>>
    /\ UNCHANGED <<ctl_vars, life_vars, backend, buf_num, buf, buf_head, buf_used, streaming,
                   bladerf_vars, noutput_items, w_running, w_buf, w_race,
                   notified, stream, pushes, overruns, w_seen, pops, w_entry>>

\* work(): the locked advance to the next slab
hackrf_work_advance ==
    /\ backend = "hackrf"
    /\ w_pc = "lock2"
    /\ buf_head' = (buf_head + 1) % buf_num
    /\ buf_used' = buf_used - 1
    /\ w_pc' = "deref2"
    /\ pops' = pops + 1
    /\ UNCHANGED <<ctl_vars, life_vars, backend, buf_num, buf, buf_offset, samp_avail, streaming,
                   bladerf_vars, noutput_items, w_running, w_buf, w_race, out,
                   ret, notified, stream, pushes, overruns, w_seen, w_entry>>

\* work(): the copy of the remaining samples out of the next slab
hackrf_work_copy2 ==
    /\ backend = "hackrf"
    /\ w_pc = "copy2"
    /\ LET remaining == noutput_items - samp_avail
       IN  /\ out' = out \o CopyOut(w_buf, 0, remaining)
           /\ buf_offset' = remaining
           /\ samp_avail' = SlabLen - remaining
    /\ ret' = noutput_items
    /\ w_pc' = "idle"
    /\ UNCHANGED <<ctl_vars, life_vars, backend, buf_num, buf, buf_head, buf_used, streaming,
                   bladerf_vars, noutput_items, w_running, w_buf, w_race,
                   notified, stream, pushes, overruns, w_seen, pops, w_entry>>

\* --------------------------------------------------- condition variable

\* _buf_cond.wait / samples_available.wait returns after a notify_one()
cond_wake ==
    /\ w_pc = "wait"
    /\ notified
    /\ notified' = FALSE
    /\ w_pc' = "check"
    /\ UNCHANGED <<ctl_vars, life_vars, backend, hackrf_vars, bladerf_vars, noutput_items,
                   w_running, w_buf, w_race, out, ret, stream, pushes, overruns,
                   w_seen, pops, w_entry>>

\* the wait returns without a notification (spurious wakeup)
cond_spurious_wake ==
    /\ w_pc = "wait"
    /\ ~notified
    /\ w_pc' = "check"
    /\ UNCHANGED <<ctl_vars, life_vars, backend, hackrf_vars, bladerf_vars, noutput_items,
                   w_running, w_buf, w_race, out, ret, notified, stream, pushes,
                   overruns, w_seen, pops, w_entry>>

\* --------------------------------------------------------- bladeRF producer

\* set_running(v) of the common base: stores the flag and, as the bridge's
\* termination contract has it, signals the queue's condition when the
\* stream ends.
set_running(v) ==
    /\ running' = v
    /\ notified' = (notified \/ (~v /\ w_pc = "wait"))

\* A reader that copies the whole block whatever room there is.
to_copy_all(n_avail, n_samples) == n_samples

\* A reader that drops a block it cannot queue whole.
to_copy_whole_or_none(n_avail, n_samples) ==
    IF n_avail < n_samples THEN 0 ELSE n_samples

\* read_task(): to_copy = (n_avail < n_samples ? n_avail : n_samples)
to_copy_of(n_avail, n_samples) ==
    IF n_avail < n_samples THEN n_avail ELSE n_samples

\* read_task(): one iteration of  while ( this->is_running() ): a
\* bladerf_read_c16 returning n_samples, and what the loop body does with it
read_task(n_samples) ==
    /\ backend = "bladerf"
    /\ running
    /\ IF n_samples < 0
       THEN /\ set_running(FALSE)
            /\ UNCHANGED <<sample_fifo, pushes, overruns>>
       ELSE IF n_samples # BlockSize
       THEN UNCHANGED <<sample_fifo, running, notified, pushes, overruns>>
       ELSE /\ pushes < MaxPush
            /\ LET n_avail == FifoCap - Len(sample_fifo)
                   to_copy == to_copy_of(n_avail, n_samples)
                   block   == Block(pushes + 1)
               IN  /\ sample_fifo' = sample_fifo \o
                          [i \in 1..to_copy |-> Decode12(block[i])]
                   /\ notified' = (notified \/ (to_copy > 0 /\ w_pc = "wait"))
                   /\ overruns' = IF to_copy < n_samples
                                  THEN overruns + 1 ELSE overruns
            /\ pushes' = pushes + 1
            /\ UNCHANGED running
    /\ UNCHANGED <<ctl_vars, life_vars, backend, stream, hackrf_vars, w_pc, noutput_items,
                   w_running, w_buf, w_race, out, ret, w_seen, pops, w_entry>>

\* ~bladerf_source_c(): this->set_running(false)
bladerf_destructor ==
    /\ backend = "bladerf"
    /\ running
    /\ set_running(FALSE)
    /\ UNCHANGED <<ctl_vars, life_vars, backend, stream, pushes, hackrf_vars, sample_fifo, w_pc,
                   noutput_items, w_running, w_buf, w_race, out, ret,
                   overruns, w_seen, pops, w_entry>>

\* --------------------------------------------------------- bladeRF consumer

\* work(): entry,  if ( ! this->is_running() ) return WORK_DONE
bladerf_work_begin(n) ==
    /\ backend = "bladerf"
    /\ w_pc = "idle"
    /\ noutput_items' = n
    /\ w_entry' = [stopped |-> ~running, unread |-> Len(sample_fifo),
                    pushes |-> pushes, taken |-> taken_so_far]
    /\ out' = <<>>
    /\ IF ~running
       THEN ret' = WORK_DONE /\ w_pc' = "idle"
       ELSE ret' = 0 /\ w_pc' = "check"
    /\ UNCHANGED <<ctl_vars, life_vars, backend, hackrf_vars, bladerf_vars, w_running, w_buf,
                   w_race, notified, stream, pushes, overruns, w_seen, pops>>

\* work(): under sample_fifo_lock, one evaluation of the wait loop's
\* condition and, once it is false, the pop of noutput_items samples
bladerf_work_check ==
    /\ backend = "bladerf"
    /\ w_pc = "check"
    /\ IF Len(sample_fifo) < noutput_items
       THEN /\ w_pc' = "wait"
            /\ UNCHANGED <<sample_fifo, out, ret, w_seen>>
       ELSE /\ out' = SubSeq(sample_fifo, 1, noutput_items)
            /\ sample_fifo' =
                   SubSeq(sample_fifo, noutput_items + 1, Len(sample_fifo))
            /\ w_seen' = Len(sample_fifo)
            /\ ret' = noutput_items
            /\ w_pc' = "idle"
    /\ UNCHANGED <<ctl_vars, life_vars, backend, hackrf_vars, running, noutput_items,
                   w_running, w_buf, w_race, notified, stream, pushes, overruns,
                   pops, w_entry>>

\* -------------------------------------------------------------------- Next

Producer ==
    \/ hackrf_rx_callback
    \/ hackrf_stop_streaming
    \/ \E n_samples \in {0 - 1, BlockSize - 1, BlockSize, BlockSize + 1} :
          read_task(n_samples)
    \/ bladerf_destructor

Consumer ==
    \/ \E n \in 1..MaxN : hackrf_work_begin(n)
    \/ hackrf_work_check
    \/ hackrf_work_deref
    \/ hackrf_work_copy1
    \/ hackrf_work_advance
    \/ hackrf_work_copy2
    \/ \E n \in 1..MaxN : bladerf_work_begin(n)
    \/ bladerf_work_check
    \/ cond_wake

Next ==
    \/ Producer
    \/ Consumer
    \/ cond_spurious_wake

Spec == Init /\ [][Next]_vars

\* The consumer thread is scheduled: a step of work() that can be taken is
\* taken, and a notified wait returns.  Nothing is assumed of the hardware or
\* of spurious wakeups.
FairSpec == Spec /\ WF_vars(Consumer)

\* ------------------------------------------------- HackRF control plane

\* Values a control-plane caller passes.
SampleRates == {1000000, 8000000}
Freqs == {Freq(1, 0)}
Ppms == {0, 1, 100}
Gains == {0 - 5, 31}
Bandwidths == {0, 10000000}
GainNames == {"RF", "IF", "BB", "XX"}

\* get_sample_rates()
get_sample_rates == {8000000, 10000000, 12500000, 16000000, 20000000}

\* get_freq_range() of an object whose _sample_rate is rate:
\* rate / 2 .. 7250e6 - rate / 2
freq_range(rate) ==
    [start |-> FromHz(rate \div 2),
     stop  |-> FreqSub(Freq(7250, 0), FromHz(rate \div 2))]

\* get_freq_range()
get_freq_range == freq_range(sample_rate)

\* get_gain_names()
get_gain_names == {"RF", "IF", "BB"}

\* A driver that reports the IF stage's range for every stage.
if_gain_range(name) == [start |-> 0, stop |-> 40, step |-> 8]

\* get_gain_range(name); an unknown name yields the empty range
get_gain_range(name) ==
    IF name = "RF" THEN [start |-> 0, stop |-> 14, step |-> 14]
    ELSE IF name = "IF" THEN [start |-> 0, stop |-> 40, step |-> 8]
    ELSE IF name = "BB" THEN [start |-> 0, stop |-> 62, step |-> 2]
    ELSE [start |-> 0, stop |-> 0 - 1, step |-> 1]

\* get_bandwidth_range(): the baseband filter bandwidths of the hardware
FilterBandwidths ==
    {1750000, 2500000, 3500000, 5000000, 5500000, 6000000, 7000000, 8000000,
     9000000, 10000000, 12000000, 14000000, 15000000, 20000000, 24000000,
     28000000}

\* hackrf_compute_baseband_filter_bw: the largest supported bandwidth not
\* above the request, the smallest one for a request below all of them
compute_baseband_filter_bw(bandwidth_hz) ==
    LET below == {b \in FilterBandwidths : b <= bandwidth_hz}
    IN  IF below = {}
        THEN CHOOSE b \in FilterBandwidths : \A c \in FilterBandwidths : b <= c
        ELSE CHOOSE b \in below : \A c \in below : c <= b

\* gain_range_t(start, stop, step).clip(value, true): the admissible value
\* nearest to value, a tie going to the larger one
clip(start, stop, step, value) ==
    IF value < start THEN start
    ELSE IF value > stop THEN stop
    ELSE start + ((2 * (value - start) + step) \div (2 * step)) * step

\* The double 1.0 + ppm * 0.000001 lies below 1 + ppm / 10^6 and the product
\* with val rounds to a double just below the whole number of Hz it would be
\* exactly.  Evaluated in IEEE double precision for the values of Freqs, the
\* construction default and Ppms: the case for ppm = 1, not for 0 and 100.
double_below(val, ppm) == ppm = 1 /\ val # Freq(0, 0)

\* APPLY_PPM_CORR(val, ppm) converted by uint64_t(): the double product
\* val * (1.0 + ppm * 0.000001) with its fraction dropped
APPLY_PPM_CORR(val, ppm) ==
    LET frac  == val.hz * ppm
        whole == val.mhz * ppm + frac \div 1000000
        short == IF frac % 1000000 = 0 /\ double_below(val, ppm) THEN 1 ELSE 0
    IN  Norm(val.mhz, val.hz + whole - short)

\* What a call records of itself: the hardware parameter it wrote (param,
\* "none" when it issued no write) and the value it passed (sent, or
\* sent_freq for a frequency), whether the write was acknowledged, whether
\* the call raised an error, and the value it returned (ret, ret_freq for a
\* frequency, ret_flag for a bool; 0 when it raised).
Call(op, ok, param, sent, r) ==
    [op |-> op, hw_ok |-> ok, thrown |-> ~ok, param |-> param,
     sent      |-> IF param = "freq" THEN 0 ELSE sent,
     sent_freq |-> IF param = "freq" THEN sent ELSE Freq(0, 0),
     ret       |-> IF ok /\ op \notin {"set_center_freq", "set_gain_mode",
                                          "start", "stop"}
                   THEN r ELSE 0,
     ret_freq  |-> IF ok /\ op = "set_center_freq" THEN r ELSE Freq(0, 0),
     ret_flag  |-> op \in {"set_gain_mode", "start", "stop"} /\ r]

\* A set_sample_rate that selects the automatic bandwidth again.
set_sample_rate_auto_bw(rate, ok) ==
    /\ backend = "hackrf"
    /\ dev
    /\ hw' = IF ok THEN [hw EXCEPT !.rate = rate] ELSE hw
    /\ sample_rate' = IF ok THEN rate ELSE sample_rate
    /\ bandwidth' = IF ok THEN (rate * 3) \div 4 ELSE bandwidth
    /\ c_call' = Call("set_sample_rate", ok, "rate", rate, rate)
    /\ UNCHANGED <<data_vars, life_vars, center_freq, freq_corr, auto_gain,
                   amp_gain, lna_gain, vga_gain>>

\* set_sample_rate(rate); ok: hackrf_set_sample_rate returned HACKRF_SUCCESS
set_sample_rate(rate, ok) ==
    /\ backend = "hackrf"
    /\ dev
    /\ hw' = IF ok THEN [hw EXCEPT !.rate = rate] ELSE hw
    /\ sample_rate' = IF ok THEN rate ELSE sample_rate
    /\ c_call' = Call("set_sample_rate", ok, "rate", rate, rate)
    /\ UNCHANGED <<data_vars, life_vars, center_freq, freq_corr, auto_gain,
                   amp_gain, lna_gain, vga_gain, bandwidth>>

\* set_center_freq(freq); ok: hackrf_set_freq returned HACKRF_SUCCESS
set_center_freq(freq, ok) ==
    /\ backend = "hackrf"
    /\ dev
    /\ LET corr_freq == APPLY_PPM_CORR(freq, freq_corr)
       IN  /\ hw' = IF ok THEN [hw EXCEPT !.freq = corr_freq] ELSE hw
           /\ c_call' = Call("set_center_freq", ok, "freq", corr_freq, freq)
    /\ center_freq' = IF ok THEN freq ELSE center_freq
    /\ UNCHANGED <<data_vars, life_vars, sample_rate, freq_corr, auto_gain,
                   amp_gain, lna_gain, vga_gain, bandwidth>>

\* set_freq_corr(ppm): stores ppm, then set_center_freq( _center_freq );
\* ok: the hackrf_set_freq of that call returned HACKRF_SUCCESS
set_freq_corr(ppm, ok) ==
    /\ backend = "hackrf"
    /\ dev
    /\ freq_corr' = ppm
    /\ LET corr_freq == APPLY_PPM_CORR(center_freq, ppm)
       IN  /\ hw' = IF ok THEN [hw EXCEPT !.freq = corr_freq] ELSE hw
           /\ c_call' = Call("set_freq_corr", ok, "freq", corr_freq, ppm)
    /\ center_freq' = center_freq
    /\ UNCHANGED <<data_vars, life_vars, sample_rate, auto_gain, amp_gain,
                   lna_gain, vga_gain, bandwidth>>

\* set_gain_mode(automatic): no hardware call
set_gain_mode(automatic) ==
    /\ backend = "hackrf"
    /\ auto_gain' = automatic
    /\ c_call' = Call("set_gain_mode", TRUE, "none", 0, automatic)
    /\ UNCHANGED <<data_vars, life_vars, sample_rate, center_freq, freq_corr,
                   amp_gain, lna_gain, vga_gain, bandwidth, hw>>

\* get_gain_mode()
get_gain_mode == auto_gain

\* A set_gain that enables the amplifier whatever gain it commits.
set_gain_amp_on(gain, ok) ==
    /\ backend = "hackrf"
    /\ dev
    /\ LET rf_gains  == get_gain_range("RF")
           clip_gain == clip(rf_gains.start, rf_gains.stop, rf_gains.step, gain)
       IN  /\ hw' = IF ok THEN [hw EXCEPT !.amp = 1] ELSE hw
           /\ amp_gain' = IF ok THEN clip_gain ELSE amp_gain
           /\ c_call' = Call("set_gain", ok, "amp", 1, clip_gain)
    /\ UNCHANGED <<data_vars, life_vars, sample_rate, center_freq, freq_corr,
                   auto_gain, lna_gain, vga_gain, bandwidth>>

\* set_gain(gain): the RF amplifier; ok: hackrf_set_amp_enable succeeded
set_gain(gain, ok) ==
    /\ backend = "hackrf"
    /\ dev
    /\ LET rf_gains  == get_gain_range("RF")
           clip_gain == clip(rf_gains.start, rf_gains.stop, rf_gains.step, gain)
           value     == IF clip_gain = 14 THEN 1 ELSE 0
       IN  /\ hw' = IF ok THEN [hw EXCEPT !.amp = value] ELSE hw
           /\ amp_gain' = IF ok THEN clip_gain ELSE amp_gain
           /\ c_call' = Call("set_gain", ok, "amp", value, clip_gain)
    /\ UNCHANGED <<data_vars, life_vars, sample_rate, center_freq, freq_corr,
                   auto_gain, lna_gain, vga_gain, bandwidth>>

\* set_if_gain(gain); ok: hackrf_set_lna_gain succeeded
set_if_gain(gain, ok) ==
    /\ backend = "hackrf"
    /\ dev
    /\ LET rf_gains  == get_gain_range("IF")
           clip_gain == clip(rf_gains.start, rf_gains.stop, rf_gains.step, gain)
       IN  /\ hw' = IF ok THEN [hw EXCEPT !.lna = clip_gain] ELSE hw
           /\ lna_gain' = IF ok THEN clip_gain ELSE lna_gain
           /\ c_call' = Call("set_if_gain", ok, "lna", clip_gain, clip_gain)
    /\ UNCHANGED <<data_vars, life_vars, sample_rate, center_freq, freq_corr,
                   auto_gain, amp_gain, vga_gain, bandwidth>>

\* set_bb_gain(gain); ok: hackrf_set_vga_gain succeeded
set_bb_gain(gain, ok) ==
    /\ backend = "hackrf"
    /\ dev
    /\ LET if_gains  == get_gain_range("BB")
           clip_gain == clip(if_gains.start, if_gains.stop, if_gains.step, gain)
       IN  /\ hw' = IF ok THEN [hw EXCEPT !.vga = clip_gain] ELSE hw
           /\ vga_gain' = IF ok THEN clip_gain ELSE vga_gain
           /\ c_call' = Call("set_bb_gain", ok, "vga", clip_gain, clip_gain)
    /\ UNCHANGED <<data_vars, life_vars, sample_rate, center_freq, freq_corr,
                   auto_gain, amp_gain, lna_gain, bandwidth>>

\* A named call that sets the IF stage whatever the name.
set_gain_name_if_stage(gain, name, ok) == set_if_gain(gain, ok)

\* set_gain(gain, name)
set_gain_name(gain, name, ok) ==
    IF name = "RF" THEN set_gain(gain, ok)
    ELSE IF name = "IF" THEN set_if_gain(gain, ok)
    ELSE IF name = "BB" THEN set_bb_gain(gain, ok)
    ELSE set_gain(gain, ok)

\* get_gain()
get_gain == amp_gain

\* get_gain(name)
get_gain_name(name) ==
    IF name = "RF" THEN get_gain
    ELSE IF name = "IF" THEN lna_gain
    ELSE IF name = "BB" THEN vga_gain
    ELSE get_gain

\* An automatic bandwidth that is the whole sample rate.
auto_bandwidth_full(rate) == rate

\* The bandwidth set_bandwidth(0) asks for: _sample_rate * 0.75
auto_bandwidth(rate) == (rate * 3) \div 4

\* get_gain(name) raises an error: never, whatever the name
get_gain_name_throws(name) == FALSE

\* set_bandwidth(bandwidth); ok: hackrf_set_baseband_filter_bandwidth
\* succeeded
set_bandwidth(bw_req, ok) ==
    /\ backend = "hackrf"
    /\ dev
    /\ LET wanted == IF bw_req = 0 THEN auto_bandwidth(sample_rate) ELSE bw_req
           bw     == compute_baseband_filter_bw(wanted)
       IN  /\ hw' = IF ok THEN [hw EXCEPT !.bw = bw] ELSE hw
           /\ bandwidth' = IF ok THEN bw ELSE bandwidth
           /\ c_call' = Call("set_bandwidth", ok, "bw", bw, bw)
    /\ UNCHANGED <<data_vars, life_vars, sample_rate, center_freq, freq_corr,
                   auto_gain, amp_gain, lna_gain, vga_gain>>

NextCtl ==
    \/ \E rate \in SampleRates, ok \in BOOLEAN : set_sample_rate(rate, ok)
    \/ \E freq \in Freqs, ok \in BOOLEAN : set_center_freq(freq, ok)
    \/ \E ppm \in Ppms, ok \in BOOLEAN : set_freq_corr(ppm, ok)
    \/ \E automatic \in BOOLEAN : set_gain_mode(automatic)
    \/ \E gain \in Gains, ok \in BOOLEAN : set_gain(gain, ok)
    \/ \E gain \in Gains, ok \in BOOLEAN : set_if_gain(gain, ok)
    \/ \E gain \in Gains, ok \in BOOLEAN : set_bb_gain(gain, ok)
    \/ \E gain \in Gains, name \in GainNames, ok \in BOOLEAN :
          set_gain_name(gain, name, ok)
    \/ \E bw_req \in Bandwidths, ok \in BOOLEAN : set_bandwidth(bw_req, ok)

\* A HackRF source whose device is open, one ring geometry and stream.
InitCtl ==
    /\ Init
    /\ backend = "hackrf"
    /\ buf_num = MinFill
    /\ \A w \in RawWords : stream <= w

\* The control plane of a HackRF source whose device is open, the data plane
\* at rest.
SpecCtl == InitCtl /\ [][NextCtl]_vars

\* Baseband gains a caller asks for: below, inside and above the BB range.
BbGains == (0 - 5)..100

\* Requests during which the hardware refuses the write.
RefusedGains == {0 - 5, 31, 100}

NextGain ==
    \/ \E gain \in BbGains : set_bb_gain(gain, TRUE)
    \/ \E gain \in RefusedGains : set_bb_gain(gain, FALSE)

\* A HackRF source whose baseband gain is set again and again.
SpecGain == InitCtl /\ [][NextGain]_vars

\* Gains a caller asks of any stage: below every range, between steps, on
\* a step, above every range.
StageGains == {0 - 5, 3, 7, 12, 20, 31, 45, 100}

NextStageGains ==
    \/ \E gain \in StageGains, ok \in BOOLEAN : set_gain(gain, ok)
    \/ \E gain \in StageGains, ok \in BOOLEAN : set_if_gain(gain, ok)
    \/ \E gain \in StageGains, ok \in BOOLEAN : set_bb_gain(gain, ok)
    \/ \E gain \in StageGains, name \in GainNames, ok \in BOOLEAN :
          set_gain_name(gain, name, ok)

\* A HackRF source whose gain setters are called in any order.
SpecStageGains == InitCtl /\ [][NextStageGains]_vars

\* The caller of the control plane sets the sample rate any number of times
\* and then one more parameter.
setter_due == c_call.op \in {"none", "set_sample_rate"}

\* The setters of the control plane called while the transport delivers
\* buffers and work() drains them.
NextSetters ==
    \/ hackrf_rx_callback
    \/ hackrf_work_begin(SlabLen + 1)
    \/ hackrf_work_check
    \/ hackrf_work_deref
    \/ hackrf_work_copy1
    \/ hackrf_work_advance
    \/ hackrf_work_copy2
    \/ \E rate \in SampleRates, ok \in BOOLEAN :
          setter_due /\ set_sample_rate(rate, ok)
    \/ \E freq \in Freqs, ok \in BOOLEAN :
          setter_due /\ set_center_freq(freq, ok)
    \/ \E ppm \in Ppms, ok \in BOOLEAN : setter_due /\ set_freq_corr(ppm, ok)
    \/ \E automatic \in BOOLEAN : setter_due /\ set_gain_mode(automatic)
    \/ \E gain \in Gains, ok \in BOOLEAN : setter_due /\ set_gain(gain, ok)
    \/ \E gain \in Gains, ok \in BOOLEAN : setter_due /\ set_if_gain(gain, ok)
    \/ \E gain \in Gains, ok \in BOOLEAN : setter_due /\ set_bb_gain(gain, ok)
    \/ \E gain \in Gains, name \in GainNames, ok \in BOOLEAN :
          setter_due /\ set_gain_name(gain, name, ok)
    \/ \E bw_req \in Bandwidths, ok \in BOOLEAN :
          setter_due /\ set_bandwidth(bw_req, ok)

\* A streaming HackRF source whose parameters are changed at any point.
SpecSetters == InitCtl /\ [][NextSetters]_vars

\* ------------------------------------------------ bladeRF control plane

\* Values a caller passes to a bladeRF source.
BladerfFreqs == {Freq(100, 0), Freq(1000, 0)}
BladerfGains == {3, 31}
BladerfGainNames == {"LNA", "VGA1", "VGA2", "XX"}

\* get_freq_range(): the range bladerf_common::freq_range() returns, that of
\* the LMS6002D transceiver, 300 MHz .. 3.8 GHz
bladerf_freq_range == [start |-> Freq(300, 0), stop |-> Freq(3800, 0)]

\* get_gain_names()
bladerf_get_gain_names == {"LNA", "VGA1", "VGA2"}

\* get_gain_range(name) for the three stages the constructor fills in
bladerf_get_gain_range(name) ==
    IF name = "LNA" THEN [start |-> 0, stop |-> 6, step |-> 3]
    ELSE IF name = "VGA1" THEN [start |-> 5, stop |-> 30, step |-> 1]
    ELSE [start |-> 0, stop |-> 60, step |-> 3]

\* set_sample_rate(rate); ok: bladerf_set_sample_rate returned 0
bladerf_set_sample_rate(rate, ok) ==
    /\ backend = "bladerf"
    /\ hw' = IF ok THEN [hw EXCEPT !.rate = rate] ELSE hw
    /\ c_call' = Call("set_sample_rate", ok, "rate", rate, rate)
    /\ UNCHANGED <<data_vars, life_vars, DeviceState, auto_gain>>

\* set_center_freq(freq): a frequency outside get_freq_range() is reported
\* and not written; ok: bladerf_set_frequency returned 0
bladerf_set_center_freq(freq, ok) ==
    /\ backend = "bladerf"
    /\ IF FreqLess(freq, bladerf_freq_range.start)
          \/ FreqLess(bladerf_freq_range.stop, freq)
       THEN /\ ok
            /\ hw' = hw
            /\ c_call' = Call("set_center_freq", TRUE, "none", 0, hw.freq)
       ELSE /\ hw' = IF ok THEN [hw EXCEPT !.freq = freq] ELSE hw
            /\ c_call' = Call("set_center_freq", ok, "freq", freq, freq)
    /\ UNCHANGED <<data_vars, life_vars, DeviceState, auto_gain>>

\* set_freq_corr(ppm): nothing is stored or written
bladerf_set_freq_corr(ppm) ==
    /\ backend = "bladerf"
    /\ c_call' = Call("set_freq_corr", TRUE, "none", 0, 0)
    /\ UNCHANGED <<data_vars, life_vars, DeviceState, auto_gain, hw>>

\* set_gain_mode(automatic): returns false, stores nothing
bladerf_set_gain_mode(automatic) ==
    /\ backend = "bladerf"
    /\ c_call' = Call("set_gain_mode", TRUE, "none", 0, FALSE)
    /\ UNCHANGED <<data_vars, life_vars, DeviceState, auto_gain, hw>>

\* get_gain_mode()
bladerf_get_gain_mode == FALSE

\* set_gain(gain, name); ok: the bladerf_set_* call of the stage returned 0
bladerf_set_gain_name(gain, name, ok) ==
    /\ backend = "bladerf"
    /\ IF name = "LNA"
       THEN LET g == IF gain \in {0, 3, 6} THEN gain ELSE 6
            IN  /\ hw' = IF ok THEN [hw EXCEPT !.lna = g] ELSE hw
                /\ c_call' = Call("set_gain", ok, "lna", g, g)
       ELSE IF name = "VGA1"
       THEN /\ hw' = IF ok THEN [hw EXCEPT !.vga1 = gain] ELSE hw
            /\ c_call' = Call("set_gain", ok, "vga1", gain, gain)
       ELSE IF name = "VGA2"
       THEN /\ hw' = IF ok THEN [hw EXCEPT !.vga = gain] ELSE hw
            /\ c_call' = Call("set_gain", ok, "vga", gain, gain)
       ELSE /\ ~ok
            /\ hw' = hw
            /\ c_call' = Call("set_gain", FALSE, "none", 0, 0)
    /\ UNCHANGED <<data_vars, life_vars, DeviceState, auto_gain>>

\* set_gain(gain)
bladerf_set_gain(gain, ok) == bladerf_set_gain_name(gain, "LNA", ok)

\* get_gain(name): the gain the hardware reports for the stage
bladerf_get_gain_name(name) ==
    IF name = "LNA" THEN hw.lna
    ELSE IF name = "VGA1" THEN hw.vga1
    ELSE hw.vga

\* get_gain(name) raises an error: for a name that is no stage
bladerf_get_gain_name_throws(name) == name \notin {"LNA", "VGA1", "VGA2"}

\* get_gain()
bladerf_get_gain == bladerf_get_gain_name("LNA")

\* set_bb_gain(gain)
bladerf_set_bb_gain(gain, ok) ==
    LET bb_gains  == bladerf_get_gain_range("VGA2")
        clip_gain == clip(bb_gains.start, bb_gains.stop, bb_gains.step, gain)
    IN  bladerf_set_gain_name(clip_gain, "VGA2", ok)

\* set_bandwidth(bandwidth); ok: bladerf_set_bandwidth returned 0
bladerf_set_bandwidth(bw_req, ok) ==
    /\ backend = "bladerf"
    /\ hw' = IF ok THEN [hw EXCEPT !.bw = bw_req] ELSE hw
    /\ c_call' = Call("set_bandwidth", ok, "bw", bw_req, bw_req)
    /\ UNCHANGED <<data_vars, life_vars, DeviceState, auto_gain>>

NextCtlB ==
    \/ \E rate \in SampleRates, ok \in BOOLEAN :
          bladerf_set_sample_rate(rate, ok)
    \/ \E freq \in BladerfFreqs, ok \in BOOLEAN :
          bladerf_set_center_freq(freq, ok)
    \/ \E ppm \in Ppms : bladerf_set_freq_corr(ppm)
    \/ \E automatic \in BOOLEAN : bladerf_set_gain_mode(automatic)
    \/ \E gain \in BladerfGains, ok \in BOOLEAN : bladerf_set_gain(gain, ok)
    \/ \E gain \in BladerfGains, name \in BladerfGainNames, ok \in BOOLEAN :
          bladerf_set_gain_name(gain, name, ok)
    \/ \E gain \in BladerfGains, ok \in BOOLEAN : bladerf_set_bb_gain(gain, ok)
    \/ \E bw_req \in Bandwidths, ok \in BOOLEAN :
          bladerf_set_bandwidth(bw_req, ok)

\* A bladeRF source whose device is open, one stream.
InitCtlB ==
    /\ Init
    /\ backend = "bladerf"
    /\ \A w \in RawWords12 : stream <= w

\* The control planes of both backends, the data plane at rest.
SpecCtlAll == (InitCtl \/ InitCtlB) /\ [][NextCtl \/ NextCtlB]_vars

\* ------------------------------------------------------------ life cycle

\* Most users of the HackRF library, and most get_devices() calls in
\* progress, at a time.
MaxUsage == 2

\* The members and the hardware record of an object under construction.
MemberInit ==
    /\ sample_rate' = 0
    /\ center_freq' = Freq(0, 0)
    /\ freq_corr' = 0
    /\ auto_gain' = FALSE
    /\ amp_gain' = 0
    /\ lna_gain' = 0
    /\ vga_gain' = 0
    /\ bandwidth' = 0
    /\ hw' = [rate |-> 0, freq |-> Freq(0, 0), amp |-> 0, lna |-> 0,
              vga |-> 0, bw |-> 0, vga1 |-> 0]
    /\ c_call' = Call("none", TRUE, "none", 0, 0)

\* The _usage section that opens a use of the library: hackrf_init() by the
\* first user, then _usage++
usage_acquire ==
    /\ lib_up' = TRUE
    /\ usage' = usage + 1

\* A closing section in which every user calls hackrf_exit().
usage_release_every_user ==
    /\ usage' = usage - 1
    /\ lib_up' = FALSE

\* The _usage section that closes a use of the library: _usage--, then
\* hackrf_exit() by the last user
usage_release ==
    /\ usage' = usage - 1
    /\ lib_up' = (lib_up /\ usage - 1 # 0)

\* hackrf_source_c(): the member initialisers and the _usage section
hackrf_ctor_begin ==
    /\ backend = "hackrf"
    /\ ctors = 0
    /\ usage < MaxUsage
    /\ MemberInit
    /\ usage_acquire
    /\ ctors' = 1
    /\ c_ctor' = [pc |-> "open", failed |-> "none", returned |-> FALSE]
    /\ UNCHANGED <<data_vars, alive, gd_calls>>

\* The constructor throws out of the hardware call it is at: no instance is
\* returned, the destructor does not run.
ctor_throw(step) ==
    /\ ctors' = 0
    /\ c_ctor' = [pc |-> "idle", failed |-> step, returned |-> FALSE]

\* hackrf_open, hackrf_board_id_read, hackrf_version_string_read, each
\* followed by HACKRF_THROW_ON_ERROR; ok: the call returned HACKRF_SUCCESS
hackrf_ctor_call(ok) ==
    /\ backend = "hackrf"
    /\ ctors = 1
    /\ c_ctor.pc \in {"open", "board_id", "version"}
    /\ IF ok
       THEN /\ c_ctor' = [c_ctor EXCEPT !.pc =
                            IF c_ctor.pc = "open" THEN "board_id"
                            ELSE IF c_ctor.pc = "board_id" THEN "version"
                            ELSE "defaults"]
            /\ ctors' = ctors
       ELSE ctor_throw(c_ctor.pc)
    /\ UNCHANGED <<data_vars, ctl_vars, usage, lib_up, alive, gd_calls>>

\* The six default writes of the constructor, in their order; ok: the
\* hardware call of the setter succeeded
hackrf_ctor_default(ok) ==
    /\ ctors = 1
    /\ c_ctor.pc = "defaults"
    /\ ~c_call.thrown
    /\ IF c_call.op = "none"
       THEN set_center_freq(FreqHalf(FreqAdd(get_freq_range.start,
                                             get_freq_range.stop)), ok)
       ELSE IF c_call.op = "set_center_freq"
       THEN set_sample_rate(CHOOSE r \in get_sample_rates :
                               \A q \in get_sample_rates : r <= q, ok)
       ELSE IF c_call.op = "set_sample_rate" THEN set_bandwidth(0, ok)
       ELSE IF c_call.op = "set_bandwidth" THEN set_gain(0, ok)
       ELSE IF c_call.op = "set_gain" THEN set_if_gain(16, ok)
       ELSE IF c_call.op = "set_if_gain" THEN set_bb_gain(20, ok)
       ELSE FALSE

\* The error a default write raised leaves the constructor.
hackrf_ctor_unwind ==
    /\ backend = "hackrf"
    /\ ctors = 1
    /\ c_ctor.pc = "defaults"
    /\ c_call.thrown
    /\ ctor_throw(c_call.op)
    /\ UNCHANGED <<data_vars, ctl_vars, usage, lib_up, alive, gd_calls>>

\* The bias argument: hackrf_set_antenna_enable when the argument is given
\* (wanted), its failure printed and nothing else; ok: the call returned
\* HACKRF_SUCCESS.  Without the argument there is no call that could fail.
hackrf_ctor_bias(wanted, ok) ==
    /\ backend = "hackrf"
    /\ ctors = 1
    /\ c_ctor.pc = "defaults"
    /\ c_call.op = "set_bb_gain"
    /\ ~c_call.thrown
    /\ wanted \/ ok
    /\ c_ctor' = [c_ctor EXCEPT !.pc = "start_rx",
                                !.failed = IF ok THEN "none" ELSE "bias"]
    /\ UNCHANGED <<data_vars, ctl_vars, usage, lib_up, alive, ctors, gd_calls>>

\* hackrf_start_rx and HACKRF_THROW_ON_ERROR, the end of the constructor
hackrf_ctor_start_rx(ok) ==
    /\ backend = "hackrf"
    /\ ctors = 1
    /\ c_ctor.pc = "start_rx"
    /\ IF ok
       THEN /\ c_ctor' = [c_ctor EXCEPT !.pc = "idle", !.returned = TRUE]
            /\ ctors' = 0
            /\ alive' = alive + 1
       ELSE /\ ctor_throw("start_rx")
            /\ alive' = alive
    /\ UNCHANGED <<data_vars, ctl_vars, usage, lib_up, gd_calls>>

\* ~hackrf_source_c() of an instance, whose _dev is not NULL
hackrf_dtor ==
    /\ backend = "hackrf"
    /\ alive > 0
    /\ alive' = alive - 1
    /\ usage_release
    /\ UNCHANGED <<data_vars, ctl_vars, ctors, gd_calls, c_ctor>>

\* get_devices(): its first _usage section
get_devices_begin ==
    /\ backend = "hackrf"
    /\ gd_calls < MaxUsage
    /\ gd_calls' = gd_calls + 1
    /\ usage_acquire
    /\ UNCHANGED <<data_vars, ctl_vars, alive, ctors, c_ctor>>

\* get_devices(): its last _usage section
get_devices_end ==
    /\ backend = "hackrf"
    /\ gd_calls > 0
    /\ gd_calls' = gd_calls - 1
    /\ usage_release
    /\ UNCHANGED <<data_vars, ctl_vars, alive, ctors, c_ctor>>

\* bladerf_source_c(): up to bladerf_open
bladerf_ctor_begin ==
    /\ backend = "bladerf"
    /\ ctors = 0
    /\ alive < MaxUsage
    /\ MemberInit
    /\ ctors' = 1
    /\ c_ctor' = [pc |-> "open", failed |-> "none", returned |-> FALSE]
    /\ UNCHANGED <<data_vars, usage, lib_up, alive, gd_calls>>

\* bladerf_open; a NULL handle throws.  ok: the handle is not NULL
bladerf_ctor_open(ok) ==
    /\ backend = "bladerf"
    /\ ctors = 1
    /\ c_ctor.pc = "open"
    /\ IF ok
       THEN /\ c_ctor' = [c_ctor EXCEPT !.pc = "enable_module"]
            /\ ctors' = ctors
       ELSE ctor_throw("open")
    /\ UNCHANGED <<data_vars, ctl_vars, usage, lib_up, alive, gd_calls>>

\* bladerf_enable_module, its failure printed, and the start of the reader
\* thread: the end of the constructor.  ok: the call returned 0
bladerf_ctor_enable_module(ok) ==
    /\ backend = "bladerf"
    /\ ctors = 1
    /\ c_ctor.pc = "enable_module"
    /\ c_ctor' = [pc |-> "idle",
                  failed |-> IF ok THEN "none" ELSE "enable_module",
                  returned |-> TRUE]
    /\ ctors' = 0
    /\ alive' = alive + 1
    /\ UNCHANGED <<data_vars, ctl_vars, usage, lib_up, gd_calls>>

\* ~bladerf_source_c() of an instance
bladerf_dtor ==
    /\ backend = "bladerf"
    /\ alive > 0
    /\ alive' = alive - 1
    /\ UNCHANGED <<data_vars, ctl_vars, usage, lib_up, ctors, gd_calls, c_ctor>>

NextLife ==
    \/ hackrf_ctor_begin
    \/ \E ok \in BOOLEAN : hackrf_ctor_call(ok)
    \/ \E ok \in BOOLEAN : hackrf_ctor_default(ok)
    \/ hackrf_ctor_unwind
    \/ \E wanted \in BOOLEAN, ok \in BOOLEAN : hackrf_ctor_bias(wanted, ok)
    \/ \E ok \in BOOLEAN : hackrf_ctor_start_rx(ok)
    \/ hackrf_dtor
    \/ get_devices_begin
    \/ get_devices_end
    \/ bladerf_ctor_begin
    \/ \E ok \in BOOLEAN : bladerf_ctor_open(ok)
    \/ \E ok \in BOOLEAN : bladerf_ctor_enable_module(ok)
    \/ bladerf_dtor

\* A process that has constructed no source yet: the library is not
\* initialised.
InitLife ==
    /\ InitObject
    /\ buf_num = (IF backend = "hackrf" THEN MinFill ELSE 1)
    /\ \A w \in (IF backend = "hackrf" THEN RawWords ELSE RawWords12) :
          stream <= w
    /\ usage = 0
    /\ lib_up = FALSE
    /\ alive = 0
    /\ ctors = 0
    /\ gd_calls = 0
    /\ c_ctor = [pc |-> "idle", failed |-> "none", returned |-> FALSE]

\* Constructions, destructions and get_devices() calls of one process, of
\* either backend.
SpecLife == InitLife /\ [][NextLife]_vars

\* ------------------------------------------------------- short transfers

\* hackrf_rx_callback(buf, len) handed a transfer of len samples, fewer than
\* a slab holds: memcpy writes the first len samples of the tail slab, the
\* rest of the slab keeps what it held, and the slab counts as filled.
hackrf_rx_callback_short(len) ==
    /\ backend = "hackrf"
    /\ streaming
    /\ pushes < MaxPush
    /\ len < SlabLen
    /\ LET buf_tail == (buf_head + buf_used) % buf_num
       IN  /\ buf' = [buf EXCEPT ![buf_tail] =
                        [i \in 1..SlabLen |->
                            IF i <= len THEN Transfer(pushes + 1)[i]
                            ELSE buf[buf_tail][i]]]
           /\ w_race' = (w_race \/ (w_pc \in {"copy1", "copy2"} /\ w_buf = buf_tail))
           /\ IF buf_used = buf_num
              THEN /\ overruns' = overruns + 1
                   /\ buf_head' = overrun_head(buf_head, buf_num)
                   /\ UNCHANGED buf_used
              ELSE /\ buf_used' = buf_used + 1
                   /\ UNCHANGED <<overruns, buf_head>>
    /\ notified' = (notified \/ w_pc = "wait")
    /\ pushes' = pushes + 1
    /\ UNCHANGED <<ctl_vars, life_vars, backend, stream, buf_num, buf_offset,
                   samp_avail, streaming, bladerf_vars, w_pc, noutput_items,
                   w_running, w_buf, out, ret, w_seen, pops, w_entry>>

NextIngest ==
    \/ Next
    \/ \E len \in 1..(SlabLen - 1) : hackrf_rx_callback_short(len)

\* A source of either backend, one ring geometry and one stream each.
InitIngest ==
    /\ Init
    /\ buf_num = (IF backend = "hackrf" THEN MinFill ELSE 1)
    /\ \A w \in (IF backend = "hackrf" THEN RawWords ELSE RawWords12) :
          stream <= w

\* The data plane with transfers of any length: the HackRF transport hands
\* the callback short buffers too, bladerf_read_c16 returns short and bloated
\* blocks.
SpecIngest == InitIngest /\ [][NextIngest]_vars

\* ------------------------------------------------------- sample decoding

\* One output sample of work(): *out++ = _lut[ *(buf + i) ] for the first
\* 16-bit word of the stream.
lut_lookup ==
    /\ backend = "hackrf"
    /\ out = <<>>
    /\ out' = <<DecodeLut(Transfer(1)[1])>>
    /\ UNCHANGED <<ctl_vars, life_vars, backend, stream, hackrf_vars,
                   bladerf_vars, w_pc, noutput_items, w_running, w_buf,
                   w_race, ret, notified, pushes, overruns, w_seen, pops,
                   w_entry>>

\* One pass of read_task's conversion loop: the first two words of the raw
\* buffer become one gr_complex in the FIFO.
read_task_convert ==
    /\ backend = "bladerf"
    /\ sample_fifo = <<>>
    /\ sample_fifo' = <<Decode12(Block(1)[1])>>
    /\ UNCHANGED <<ctl_vars, life_vars, backend, stream, hackrf_vars, running,
                   w_pc, noutput_items, w_running, w_buf, w_race, out, ret,
                   notified, pushes, overruns, w_seen, pops, w_entry>>

NextDecode ==
    \/ lut_lookup
    \/ read_task_convert

\* A constructed source whose stream starts with any 16-bit word.
InitDecode ==
    /\ backend \in {"hackrf", "bladerf"}
    /\ buf_num = (IF backend = "hackrf" THEN MinFill ELSE 1)
    /\ InitObjectOn(0..MaxWord, 0..MaxWord)
    /\ InitLibrary

\* The two sample decoders applied to every 16-bit word.
SpecDecode == InitDecode /\ [][NextDecode]_vars

\* ------------------------------------------------------- endless stream

\* hackrf_rx_callback(buf, len) for the buffers after the MaxPush-th, which
\* the model no longer tells apart: each carries the labels of the last
\* numbered buffer, and the counters stay at their bounds.
hackrf_rx_callback_steady ==
    /\ backend = "hackrf"
    /\ streaming
    /\ pushes = MaxPush
    /\ LET buf_tail == (buf_head + buf_used) % buf_num
       IN  /\ buf' = [buf EXCEPT ![buf_tail] = Transfer(MaxPush)]
           /\ w_race' = (w_race \/ (w_pc \in {"copy1", "copy2"} /\ w_buf = buf_tail))
           /\ IF buf_used = buf_num
              THEN /\ overruns' = (IF overruns < MaxPush THEN overruns + 1
                                   ELSE overruns)
                   /\ buf_head' = overrun_head(buf_head, buf_num)
                   /\ UNCHANGED buf_used
              ELSE /\ buf_used' = buf_used + 1
                   /\ UNCHANGED <<overruns, buf_head>>
    /\ notified' = (notified \/ w_pc = "wait")
    /\ UNCHANGED <<ctl_vars, life_vars, backend, stream, buf_num, buf_offset,
                   samp_avail, streaming, bladerf_vars, w_pc, noutput_items,
                   w_running, w_buf, out, ret, pushes, w_seen, pops, w_entry>>

\* The consumer whose calls are followed: a work() call is begun while the
\* buffers are still numbered, and every call begun is carried on.
ConsumerStream ==
    /\ w_pc # "idle" \/ pushes < MaxPush
    /\ Consumer

NextStream ==
    \/ Producer
    \/ hackrf_rx_callback_steady
    \/ ConsumerStream
    \/ cond_spurious_wake

\* A source of either backend and, for HackRF, of any ring geometry, fed one
\* stream.
InitStream ==
    /\ Init
    /\ \A w \in (IF backend = "hackrf" THEN RawWords ELSE RawWords12) :
          stream <= w

\* The transport keeps calling back for as long as the device streams, and
\* the consumer thread is scheduled.
FairStream ==
    /\ InitStream
    /\ [][NextStream]_vars
    /\ WF_vars(hackrf_rx_callback \/ hackrf_rx_callback_steady)
    /\ WF_vars(ConsumerStream)

\* ---------------------------------------------------------- the mutex

\* A wait that suspends its caller with the mutex still held.
cond_wait_holds(owner) == owner

\* The owner of the mutex once its owner has called wait( lock ) on the
\* condition variable: the wait releases the mutex as it suspends the caller.
cond_wait_mutex(owner) == "free"

\* hackrf_rx_callback(): the transport has called back with the next full
\* buffer; the callback is about to construct its scoped_lock.
hackrf_rx_callback_enter ==
    /\ backend = "hackrf"
    /\ streaming
    /\ pushes < MaxPush
    /\ p_pc = "idle"
    /\ p_pc' = "lock"
    /\ UNCHANGED <<ctl_vars, lib_vars, bias_vars, queue_vars, mutex>>

\* read_task(): bladerf_read_c16 has returned a full block; the loop body is
\* about to call sample_fifo_lock.lock().
read_task_enter ==
    /\ backend = "bladerf"
    /\ running
    /\ pushes < MaxPush
    /\ p_pc = "idle"
    /\ p_pc' = "lock"
    /\ UNCHANGED <<ctl_vars, lib_vars, bias_vars, queue_vars, mutex>>

\* The producer acquires the mutex it waits for.
mutex_lock_producer ==
    /\ p_pc = "lock"
    /\ mutex = "free"
    /\ mutex' = "producer"
    /\ p_pc' = "held"
    /\ UNCHANGED <<ctl_vars, lib_vars, bias_vars, queue_vars>>

\* hackrf_rx_callback(): the section under the mutex, its release and the
\* notify_one() after it.
hackrf_rx_callback_held ==
    /\ backend = "hackrf"
    /\ p_pc = "held"
    /\ LET buf_tail == (buf_head + buf_used) % buf_num
       IN  /\ buf' = [buf EXCEPT ![buf_tail] = Transfer(pushes + 1)]
           /\ w_race' = (w_race \/ (w_pc \in {"copy1", "copy2"} /\ w_buf = buf_tail))
           /\ IF buf_used = buf_num
              THEN /\ overruns' = overruns + 1
                   /\ buf_head' = overrun_head(buf_head, buf_num)
                   /\ UNCHANGED buf_used
              ELSE /\ buf_used' = buf_used + 1
                   /\ UNCHANGED <<overruns, buf_head>>
    /\ mutex' = "free"
    /\ notified' = (notified \/ w_pc = "wait")
    /\ pushes' = pushes + 1
    /\ p_pc' = "idle"
    /\ UNCHANGED <<ctl_vars, lib_vars, bias_vars, backend, stream, buf_num, buf_offset,
                   samp_avail, streaming, bladerf_vars, w_pc, noutput_items,
                   w_running, w_buf, out, ret, w_seen, pops, w_entry>>

\* read_task(): the conversion loop under sample_fifo_lock, unlock() and the
\* notify_one() after it.
read_task_held ==
    /\ backend = "bladerf"
    /\ p_pc = "held"
    /\ LET n_avail == FifoCap - Len(sample_fifo)
           to_copy == to_copy_of(n_avail, BlockSize)
           block   == Block(pushes + 1)
       IN  /\ sample_fifo' = sample_fifo \o
                  [i \in 1..to_copy |-> Decode12(block[i])]
           /\ notified' = (notified \/ (to_copy > 0 /\ w_pc = "wait"))
           /\ overruns' = IF to_copy < BlockSize
                          THEN overruns + 1 ELSE overruns
    /\ mutex' = "free"
    /\ pushes' = pushes + 1
    /\ p_pc' = "idle"
    /\ UNCHANGED <<ctl_vars, lib_vars, bias_vars, backend, stream, hackrf_vars, running,
                   w_pc, noutput_items, w_running, w_buf, w_race, out, ret,
                   w_seen, pops, w_entry>>

\* work(): the scoped_lock / unique_lock in front of the wait loop is
\* constructed, at entry and again when a wait returns.
work_lock ==
    /\ w_pc = "check"
    /\ mutex = "free"
    /\ mutex' = "consumer"
    /\ w_pc' = "locked"
    /\ UNCHANGED <<ctl_vars, lib_vars, bias_vars, backend, hackrf_vars, bladerf_vars,
                   noutput_items, w_running, w_buf, w_race, out, ret,
                   notified, stream, pushes, overruns, w_seen, pops, w_entry,
                   p_pc>>

\* hackrf_source_c::work(): with the mutex held, one evaluation of the wait
\* loop's condition: the call waits, or leaves the locked block.
hackrf_work_locked ==
    /\ backend = "hackrf"
    /\ w_pc = "locked"
    /\ IF buf_used < MinFill /\ w_running
       THEN /\ w_pc' = "wait"
            /\ mutex' = cond_wait_mutex(mutex)
            /\ UNCHANGED <<ret, w_buf, w_race, w_seen>>
       ELSE IF ~w_running
       THEN /\ w_pc' = "idle"
            /\ mutex' = "free"
            /\ ret' = WORK_DONE
            /\ UNCHANGED <<w_buf, w_race, w_seen>>
       ELSE /\ w_pc' = "deref1"
            /\ mutex' = "free"
            /\ w_seen' = hackrf_unread
            /\ UNCHANGED <<ret, w_buf, w_race>>
    /\ UNCHANGED <<ctl_vars, lib_vars, bias_vars, backend, hackrf_vars, bladerf_vars,
                   noutput_items, w_running, out, notified, stream, pushes,
                   overruns, pops, w_entry, p_pc>>

\* hackrf_source_c::work(): the locked advance to the next slab; the block
\* takes the mutex, moves the head and releases the mutex.
hackrf_work_advance_locked ==
    /\ mutex = "free"
    /\ hackrf_work_advance

\* bladerf_source_c::work(): with the mutex held, one evaluation of the wait
\* loop's condition: the call waits, or pops its samples and returns.
bladerf_work_locked ==
    /\ backend = "bladerf"
    /\ w_pc = "locked"
    /\ IF Len(sample_fifo) < noutput_items
       THEN /\ w_pc' = "wait"
            /\ mutex' = cond_wait_mutex(mutex)
            /\ UNCHANGED <<sample_fifo, out, ret, w_seen>>
       ELSE /\ out' = SubSeq(sample_fifo, 1, noutput_items)
            /\ sample_fifo' =
                   SubSeq(sample_fifo, noutput_items + 1, Len(sample_fifo))
            /\ w_seen' = Len(sample_fifo)
            /\ ret' = noutput_items
            /\ w_pc' = "idle"
            /\ mutex' = "free"
    /\ UNCHANGED <<ctl_vars, lib_vars, bias_vars, backend, hackrf_vars, running,
                   noutput_items, w_running, w_buf, w_race, notified, stream,
                   pushes, overruns, pops, w_entry, p_pc>>

\* The producer's steps that need no mutex, and its way to the mutex.
ProducerEnter ==
    \/ hackrf_rx_callback_enter
    \/ hackrf_stop_streaming
    \/ read_task_enter
    \/ \E n_samples \in {0 - 1, BlockSize - 1, BlockSize + 1} :
          p_pc = "idle" /\ read_task(n_samples)
    \/ bladerf_destructor

\* The producer's section under the mutex.
ProducerHeld ==
    \/ hackrf_rx_callback_held
    \/ read_task_held

ConsumerLock ==
    \/ \E n \in 1..MaxN : hackrf_work_begin(n)
    \/ \E n \in 1..MaxN : bladerf_work_begin(n)
    \/ work_lock
    \/ hackrf_work_locked
    \/ hackrf_work_deref
    \/ hackrf_work_copy1
    \/ hackrf_work_advance_locked
    \/ hackrf_work_copy2
    \/ bladerf_work_locked
    \/ cond_wake

NextLock ==
    \/ ProducerEnter
    \/ mutex_lock_producer
    \/ ProducerHeld
    \/ ConsumerLock
    \/ cond_spurious_wake

\* The data plane with the queue mutex taken and released step by step.
SpecLock == InitIngest /\ [][NextLock]_vars

\* Both threads are scheduled, and a thread that finds the mutex free again
\* and again acquires it.
FairLock ==
    /\ SpecLock
    /\ WF_vars(ConsumerLock)
    /\ WF_vars(ProducerHeld)
    /\ SF_vars(mutex_lock_producer)

\* ------------------------------------------------------- antenna bias

\* The end of the constructor from the bias block on: with the bias argument
\* given, hackrf_set_antenna_enable(_dev, bias), its failure printed and
\* nothing else; then the slabs and hackrf_start_rx, which here succeed.
\* ok: hackrf_set_antenna_enable returned HACKRF_SUCCESS.
hackrf_ctor_antenna(given, bias, ok) ==
    /\ backend = "hackrf"
    /\ ctors = 1
    /\ c_ctor.pc = "bias"
    /\ hw_bias' = (IF given /\ ok THEN bias ELSE hw_bias)
    /\ c_ctor' = [pc |-> "idle",
                  failed |-> IF given /\ ~ok THEN "bias" ELSE "none",
                  returned |-> TRUE]
    /\ ctors' = 0
    /\ alive' = alive + 1
    /\ UNCHANGED <<queue_vars, lock_vars, ctl_vars, usage, lib_up, gd_calls,
                   biasT>>

\* _biasT after set_biast(enabled): the return value of
\* hackrf_set_antenna_enable is not looked at.
biast_stored(enabled, ok) == enabled

\* set_biast(enabled); ok: hackrf_set_antenna_enable returned HACKRF_SUCCESS
set_biast(enabled, ok) ==
    /\ backend = "hackrf"
    /\ c_ctor.returned
    /\ hw_bias' = (IF ok THEN enabled ELSE hw_bias)
    /\ biasT' = biast_stored(enabled, ok)
    /\ c_call' = [Call("set_biast", TRUE, "bias", IF enabled THEN 1 ELSE 0, 0)
                     EXCEPT !.hw_ok = ok]
    /\ UNCHANGED <<queue_vars, lock_vars, lib_vars, DeviceState, auto_gain,
                   hw>>

\* get_biast()
get_biast == biasT

NextBias ==
    \/ \E given \in BOOLEAN, bias \in BOOLEAN, ok \in BOOLEAN :
          hackrf_ctor_antenna(given, bias, ok)
    \/ \E enabled \in BOOLEAN, ok \in BOOLEAN : set_biast(enabled, ok)
    \/ \E gain \in RefusedGains, ok \in BOOLEAN :
          c_ctor.returned /\ set_bb_gain(gain, ok)

\* A HackRF constructor that has written its defaults and stands at the bias
\* block.
InitBias ==
    /\ InitObject
    /\ backend = "hackrf"
    /\ buf_num = MinFill
    /\ \A w \in RawWords : stream <= w
    /\ usage = 1
    /\ lib_up = TRUE
    /\ alive = 0
    /\ ctors = 1
    /\ gd_calls = 0
    /\ c_ctor = [pc |-> "bias", failed |-> "none", returned |-> FALSE]

\* The antenna bias of a HackRF source from its construction on, the
\* baseband gain being set in between.
SpecBias == InitBias /\ [][NextBias]_vars

\* ---------------------------------------------------------- start / stop

\* start(): false without a device handle, true otherwise; the call of
\* hackrf_start_rx is compiled out
start ==
    /\ backend = "hackrf"
    /\ c_call' = Call("start", TRUE, "none", 0, dev)
    /\ UNCHANGED <<data_vars, life_vars, DeviceState, auto_gain, hw>>

\* A stop() whose call of hackrf_stop_rx is compiled in: a success ends the
\* streaming, a failure returns false.
stop_with_stop_rx ==
    /\ backend = "hackrf"
    /\ \E ok \in BOOLEAN :
          /\ streaming' = (streaming /\ ~ok)
          /\ c_call' = Call("stop", TRUE, "none", 0, dev /\ ok)
    /\ UNCHANGED <<life_vars, DeviceState, auto_gain, hw, backend, buf_num, buf,
                   buf_head, buf_used, buf_offset, samp_avail, bladerf_vars,
                   w_pc, noutput_items, w_running, w_buf, w_race, out, ret,
                   notified, stream, pushes, overruns, w_seen, pops, w_entry>>

\* stop(): false without a device handle, true otherwise; the call of
\* hackrf_stop_rx is compiled out
stop ==
    /\ backend = "hackrf"
    /\ c_call' = Call("stop", TRUE, "none", 0, dev)
    /\ UNCHANGED <<data_vars, life_vars, DeviceState, auto_gain, hw>>

NextStartStop ==
    \/ Next
    \/ start
    \/ stop

\* The data plane of a source of either backend, start() and stop() of the
\* HackRF source called at any point.
SpecStartStop == InitIngest /\ [][NextStartStop]_vars

\* ------------------------------------------------------------ data plane claims

\* The device is streaming: hackrf_is_streaming for HackRF, the running flag
\* for bladeRF.
DeviceStreaming == IF backend = "hackrf" THEN streaming ELSE running

\* Samples per producer delivery.
PushLen == IF backend = "hackrf" THEN SlabLen ELSE BlockSize

\* The decoded q-th sample (q = 1, 2, ...) of the stream the hardware delivers.
Delivered(q) ==
    IF backend = "hackrf"
    THEN [seq |-> q,
          re  |-> S8(RawAt(q - 1) % 256),
          im  |-> S8(RawAt(q - 1) \div 256)]
    ELSE [seq |-> q,
          re  |-> SignExtend12(RawAt(2 * (q - 1))),
          im  |-> SignExtend12(RawAt(2 * (q - 1) + 1))]

\* A call of work() has returned.
Returned == w_pc = "idle" /\ ret # 0

\* C1: every call of work(noutput_items), in either backend, returns exactly
\* noutput_items, having written that many samples, or WORK_DONE; it never
\* returns a count strictly between 0 and noutput_items.
C1_WorkReturnsAllOrDone ==
    /\ Returned =>
          \/ ret = WORK_DONE /\ out = <<>>
          \/ ret = noutput_items /\ Len(out) = noutput_items
    /\ ~Returned => ret = 0

\* C2: if the device stops streaming while a consumer is blocked inside
\* work(), the consumer is eventually woken and its call returns WORK_DONE.
C2_BlockedConsumerWokenOnStop ==
    (w_pc = "wait" /\ ~DeviceStreaming) ~> (w_pc = "idle" /\ ret = WORK_DONE)

\* C3: a work(n) call made while fewer than n samples are unread and the
\* device is streaming returns only once at least n unread samples have
\* accumulated, and then returns exactly those n samples in push order.
C3_WorkWaitsForNThenReturnsThem ==
    (/\ Returned
     /\ ret = noutput_items
     /\ ~w_entry.stopped
     /\ w_entry.unread < noutput_items)
    => /\ w_seen >= noutput_items
       /\ Len(out) = noutput_items
       /\ \A i \in 1..Len(out) : out[i].seq > 0 /\ out[i] = Delivered(out[i].seq)
       /\ \A i \in 1..(Len(out) - 1) : out[i + 1].seq > out[i].seq

\* C4: a sequence S of at most capacity samples pushed into an empty queue
\* and then pulled with work(|S|) comes back as exactly the decoded samples of
\* S, in push order.
C4_PushThenPullRoundTrip ==
    (/\ Returned
     /\ ret = noutput_items
     /\ overruns = 0
     /\ w_entry.pushes = pushes
     /\ w_entry.unread = pushes * PushLen
     /\ noutput_items = pushes * PushLen)
    => out = [q \in 1..noutput_items |-> Delivered(q)]

\* C5 (step): a callback that finds all slabs full overwrites exactly the
\* oldest slab with the incoming buffer, advances _buf_head by one modulo
\* _buf_num, leaves _buf_used at _buf_num and emits exactly one overrun
\* notification.
C5_OverrunStep ==
    (backend = "hackrf" /\ pushes' = pushes + 1 /\ buf_used = buf_num)
    => /\ buf_head' = (buf_head + 1) % buf_num
       /\ buf_used' = buf_num
       /\ overruns' = overruns + 1
       /\ buf' = [buf EXCEPT ![buf_head] = Transfer(pushes')]

\* C5 (ring): while the consumer has released no slab, the ring holds the
\* most recent min(pushes, _buf_num) buffers in push order starting at
\* _buf_head, and one overrun was signalled per buffer beyond _buf_num.
C5_RingHoldsNewest ==
    (backend = "hackrf" /\ pops = 0)
    => /\ buf_used = (IF pushes < buf_num THEN pushes ELSE buf_num)
       /\ overruns = (IF pushes < buf_num THEN 0 ELSE pushes - buf_num)
       /\ \A j \in 0..(buf_used - 1) :
             buf[(buf_head + j) % buf_num] = Transfer(pushes - buf_used + 1 + j)

\* C5: in the HackRF slab ring a callback arriving with all slabs full evicts
\* exactly the oldest slab, keeps the newest buffer and signals one overrun;
\* with 4 slabs and 5 pushes the ring holds pushes #2..#5 and 1 overrun.
C5_RingOverrunEvictsOldest == [][C5_OverrunStep]_vars /\ []C5_RingHoldsNewest

\* C5 witness: 4 slabs, 5 pushes, nothing released by the consumer.
C5_Witness ==
    /\ backend = "hackrf"
    /\ buf_num = 4
    /\ pushes = 5
    /\ pops = 0
    /\ overruns = 1
    /\ buf_head = 1
    /\ buf[1] = Transfer(2)
    /\ buf[0] = Transfer(5)

\* C6: queue occupancy stays within bounds: 0 <= _buf_used <= _buf_num for
\* HackRF, and the bladeRF sample FIFO never holds more than its capacity.
C6_OccupancyWithinCapacity ==
    /\ backend = "hackrf" => (0 <= buf_used /\ buf_used <= buf_num)
    /\ backend = "bladerf" => Len(sample_fifo) <= FifoCap

\* C6 witness: both queues get full under overrun (one backend per state).
C6_Witness ==
    /\ overruns > 0
    /\ \/ backend = "hackrf" /\ buf_used = buf_num /\ pops > 0
       \/ backend = "bladerf" /\ Len(sample_fifo) = FifoCap

\* C7: for any positive noutput_items, the HackRF read cursor stays inside a
\* valid unread region: _buf_head < _buf_num, _buf_offset + _samp_avail is the
\* slab length, and every sample work() reads lies inside a slab the producer
\* has filled.
C7_ReadCursorInsideUnreadRegion ==
    backend = "hackrf"
    => /\ buf_head < buf_num
       /\ buf_offset + samp_avail = SlabLen
       /\ \A i \in 1..Len(out) : out[i] # OobSample /\ out[i].seq # 0

\* C8 (step): read_task receiving a full block with f free slots appends
\* exactly the min(k, f) leading samples in order, keeps what was queued,
\* signals an overrun exactly when f < k, and leaves the consumer's call and
\* the running flag alone.
C8_PushStep ==
    (backend = "bladerf" /\ pushes' = pushes + 1)
    => LET f == FifoCap - Len(sample_fifo)
           m == IF BlockSize < f THEN BlockSize ELSE f
       IN  /\ sample_fifo' = sample_fifo \o
                  [i \in 1..m |-> Delivered(pushes * BlockSize + i)]
           /\ (f < BlockSize) => overruns' = overruns + 1
           /\ (f >= BlockSize) => overruns' = overruns
           /\ UNCHANGED <<running, w_pc, ret, out>>

\* C8: in the bladeRF linear FIFO a full block of k samples arriving with f
\* free slots contributes exactly its min(k, f) leading samples, reorders and
\* removes nothing, and signals an overrun exactly when f < k.
C8_FifoPushTruncates == [][C8_PushStep]_vars

\* C8 witness: a block was cut short: the FIFO is full and ends inside a block.
C8_Witness ==
    /\ backend = "bladerf"
    /\ overruns > 0
    /\ Len(sample_fifo) = FifoCap
    /\ sample_fifo[FifoCap].seq % BlockSize # 0
    /\ running

\* C9: a work() call begun once the device is not streaming returns WORK_DONE
\* without blocking and without writing samples.
C9_WorkAfterStopReturnsDone ==
    w_entry.stopped
    => /\ w_pc \in {"idle", "check"}
       /\ out = <<>>
       /\ w_pc = "idle" => ret = WORK_DONE

\* C9 witness: the device stopped with enough data queued, and the call still
\* returned WORK_DONE.
C9_Witness ==
    /\ w_entry.stopped
    /\ Returned
    /\ ret = WORK_DONE
    /\ \/ backend = "hackrf" /\ buf_used >= MinFill
       \/ backend = "bladerf" /\ Len(sample_fifo) >= noutput_items

\* ---------------------------------------------------- control plane claims

\* C10 (step): a setter whose hardware write is refused raises an error and
\* leaves every DeviceState field as it was.
C10_RefusedStep ==
    (c_call'.op # "none" /\ ~c_call'.hw_ok)
    => (c_call'.thrown /\ UNCHANGED DeviceState)

\* C10: for every HackRF setter, a refused hardware write is surfaced to the
\* caller and every DeviceState field keeps the value it had before the
\* call; a new value is committed only after the hardware reports success.
C10_RefusedWriteKeepsDeviceState == [][C10_RefusedStep]_vars

\* A value of the range start, start + step, ..., stop.
InRange(r, v) ==
    \E k \in 0..((r.stop - r.start) \div r.step) : v = r.start + k * r.step

\* The value a hardware write passed lies in the RangeSet advertised for its
\* parameter.
SentInRange(call) ==
    IF call.param = "rate" THEN call.sent \in get_sample_rates
    ELSE IF call.param = "freq"
    THEN /\ ~FreqLess(call.sent_freq, get_freq_range.start)
         /\ ~FreqLess(get_freq_range.stop, call.sent_freq)
    ELSE IF call.param = "amp"
    THEN InRange(get_gain_range("RF"), 14 * call.sent)
    ELSE IF call.param = "lna" THEN InRange(get_gain_range("IF"), call.sent)
    ELSE IF call.param = "vga" THEN InRange(get_gain_range("BB"), call.sent)
    ELSE IF call.param = "bw" THEN call.sent \in FilterBandwidths
    ELSE TRUE

\* C11 (step): the value a setter passes to its hardware write belongs to the
\* advertised RangeSet of the parameter.
C11_WriteStep ==
    (c_call'.op # "none" /\ c_call'.param # "none") => SentInRange(c_call')

\* C11: every setter passes to the hardware write only a value of the
\* parameter's advertised RangeSet (get_sample_rates, get_freq_range,
\* get_gain_range(name), get_bandwidth_range); an out-of-range or off-step
\* request is replaced by the nearest admissible value before the write.
C11_SetterWritesOnlyRangeValues == [][C11_WriteStep]_vars

\* f * (1 + ppm * 1e-6) is a whole number of Hz and sent is that number.
ExactlyCorrected(sent, f, ppm) ==
    /\ (f.hz * ppm) % 1000000 = 0
    /\ sent = Norm(f.mhz, f.hz + f.mhz * ppm + (f.hz * ppm) \div 1000000)

\* C12 (step): a successful set_center_freq(f) sends f * (1 + ppm * 1e-6)
\* for the ppm set_freq_corr stored, and get_center_freq() is f afterwards.
C12_Step ==
    \A f \in Freqs :
        set_center_freq(f, TRUE)
        => /\ ExactlyCorrected(hw'.freq, f, freq_corr)
           /\ center_freq' = f

\* C12: after set_freq_corr(ppm), a successful set_center_freq(f) has sent
\* the hardware f * (1 + ppm * 1e-6) (1_000_100 for ppm = 100, f = 1_000_000)
\* while get_center_freq() returns the uncorrected f, for every ppm and f.
C12_HardwareGetsCorrectedFreq == [][C12_Step]_vars

\* C13: after any sequence of control-plane calls with any hardware outcomes
\* the cached DeviceState agrees with the last acknowledged hardware writes:
\* the acknowledged frequency is _center_freq corrected by _freq_corr, and
\* _sample_rate, _amp_gain, _lna_gain, _vga_gain and _bandwidth are the last
\* acknowledged values.
C13_CacheAgreesWithHardware ==
    backend = "hackrf"
    => /\ hw.freq = APPLY_PPM_CORR(center_freq, freq_corr)
       /\ hw.rate = sample_rate
       /\ 14 * hw.amp = amp_gain
       /\ hw.lna = lna_gain
       /\ hw.vga = vga_gain
       /\ hw.bw = bandwidth

\* C14 (step): get_gain(name) with a name that is no gain stage raises an
\* error; set_gain(value, name) with such a name raises an error, writes
\* nothing to the hardware and changes no gain.
C14_UnknownStageStep ==
    \A g \in Gains, ok \in BOOLEAN :
        set_gain_name(g, "XX", ok)
        => /\ c_call'.thrown
           /\ c_call'.param = "none"
           /\ UNCHANGED <<amp_gain, lna_gain, vga_gain, hw>>
           /\ get_gain_name_throws("XX")

\* C14: a named gain call whose name is not among get_gain_names() fails with
\* an unknown-gain-stage error, issues no hardware write and changes no gain
\* value.
C14_UnknownGainStageRejected ==
    [][("XX" \notin get_gain_names) => C14_UnknownStageStep]_vars

\* C15 (step): at a gain call, the unqualified and the named call on the
\* primary stage are the same step, the two getters read the same gain before
\* and after it, and the unqualified call leaves the other stages alone.
C15_Step ==
    c_call'.op = "set_gain"
    => /\ backend = "hackrf"
          => /\ get_gain = get_gain_name("RF")
             /\ get_gain' = get_gain_name("RF")'
             /\ \A g \in Gains, ok \in BOOLEAN :
                   /\ set_gain(g, ok) <=> set_gain_name(g, "RF", ok)
                   /\ set_gain(g, ok)
                      => /\ UNCHANGED <<lna_gain, vga_gain>>
                         /\ hw'.lna = hw.lna
                         /\ hw'.vga = hw.vga
       /\ backend = "bladerf"
          => /\ bladerf_get_gain = bladerf_get_gain_name("LNA")
             /\ bladerf_get_gain' = bladerf_get_gain_name("LNA")'
             /\ \A g \in BladerfGains, ok \in BOOLEAN :
                   /\ bladerf_set_gain(g, ok)
                      <=> bladerf_set_gain_name(g, "LNA", ok)
                   /\ bladerf_set_gain(g, ok)
                      => /\ hw'.vga1 = hw.vga1
                         /\ hw'.vga = hw.vga

\* C15: an unqualified gain call is the named call on the primary stage: for
\* HackRF set_gain(g) and set_gain(g, "RF") produce the same hardware write,
\* the same resulting state and the same return value, get_gain() equals
\* get_gain("RF"), and neither changes the IF or BB gain; for bladeRF
\* likewise with the primary stage LNA.
C15_UnqualifiedGainIsPrimaryStage == [][C15_Step]_vars

\* An unqualified set_gain has switched the RF amplifier on (HackRF) or has
\* set the LNA to its middle gain (bladeRF), the other stages being non-zero.
C15_Witness ==
    /\ c_call.op = "set_gain"
    /\ c_call.hw_ok
    /\ \/ backend = "hackrf" /\ c_call.param = "amp" /\ amp_gain = 14
          /\ hw.amp = 1 /\ lna_gain = 16 /\ vga_gain = 20
       \/ backend = "bladerf" /\ c_call.param = "lna" /\ hw.lna = 3
          /\ hw.vga1 = 31 /\ hw.vga = 30

\* C16 (step): set_bandwidth(0) passes the hardware a non-zero bandwidth;
\* for HackRF it is 0.75 of the current sample rate snapped to a supported
\* filter bandwidth, and it is committed when acknowledged.
C16_Step ==
    \A ok \in BOOLEAN :
        (set_bandwidth(0, ok) \/ bladerf_set_bandwidth(0, ok))
        => /\ c_call'.param = "bw"
           /\ c_call'.sent # 0
           /\ backend = "hackrf"
              => /\ c_call'.sent \in FilterBandwidths
                 /\ c_call'.sent
                    = compute_baseband_filter_bw((3 * sample_rate) \div 4)
                 /\ ok => (bandwidth' = c_call'.sent /\ hw'.bw = c_call'.sent)

\* C16: set_bandwidth(0) selects an automatic bandwidth: the value sent to
\* the hardware and committed is a fixed fraction (0.75 for HackRF) of the
\* sample rate current at the call, snapped to a supported filter bandwidth;
\* a bandwidth of zero is never itself written to the hardware.
C16_ZeroBandwidthIsAutomatic == [][C16_Step]_vars

\* C17 (step): set_gain_mode(a) writes nothing to the hardware, changes no
\* other DeviceState field, and get_gain_mode() returns a afterwards.
C17_Step ==
    \A a \in BOOLEAN :
        (set_gain_mode(a) \/ bladerf_set_gain_mode(a))
        => /\ c_call'.param = "none"
           /\ hw' = hw
           /\ UNCHANGED DeviceState
           /\ (IF backend = "hackrf" THEN get_gain_mode'
               ELSE bladerf_get_gain_mode) = a

\* C17: on a device without hardware AGC set_gain_mode(a) simply stores the
\* flag: no hardware write, no other DeviceState field changed, and a
\* subsequent get_gain_mode() returns a, for both values of a.
C17_GainModeFlagStored == [][C17_Step]_vars

\* The middle of a frequency range.
Midpoint(r) == FreqHalf(FreqAdd(r.start, r.stop))

\* C18: after a HackRF construction all of whose hardware calls were
\* acknowledged, DeviceState holds the device defaults: the center frequency
\* is the midpoint of get_freq_range(), the sample rate is the minimum of
\* get_sample_rates() (8e6), the bandwidth is the automatic value for that
\* rate, the RF gain is 0, the IF gain 16 and the BB gain 20, each gain a
\* value of its stage's range.
C18_ConstructionDefaults ==
    (backend = "hackrf" /\ c_ctor.returned /\ c_ctor.failed = "none")
    => /\ center_freq = Midpoint(get_freq_range)
       /\ sample_rate = 8000000
       /\ \A r \in get_sample_rates : sample_rate <= r
       /\ bandwidth = compute_baseband_filter_bw((3 * sample_rate) \div 4)
       /\ amp_gain = 0
       /\ hw.amp = 0
       /\ lna_gain = 16
       /\ vga_gain = 20
       /\ InRange(get_gain_range("RF"), amp_gain)
       /\ InRange(get_gain_range("IF"), lna_gain)
       /\ InRange(get_gain_range("BB"), vga_gain)

\* A HackRF constructor has run through its hardware calls, all acknowledged,
\* and has returned an instance.
C18_Witness ==
    /\ backend = "hackrf"
    /\ c_ctor.returned
    /\ c_ctor.failed = "none"
    /\ c_call.op = "set_bb_gain"
    /\ alive > 0

\* C19: a failure of any hardware call made during construction (open,
\* board-id and version read, default writes, bias setting, module enable,
\* RX start) aborts the construction: no instance is returned whose
\* construction-time hardware step failed.
C19_FailedConstructionReturnsNothing ==
    c_ctor.returned => c_ctor.failed = "none"

\* C20: whenever no instance is alive, no construction and no get_devices()
\* call is in progress, the usage count _usage is 0 and the library has been
\* shut down, whatever constructions (successful or failing), destructions
\* and get_devices() calls came before.
C20_LibraryReferenceCounted ==
    (backend = "hackrf" /\ alive = 0 /\ ctors = 0 /\ gd_calls = 0)
    => (usage = 0 /\ ~lib_up)

\* ------------------------------------------------------ later claims

\* C21 (step): a start() or stop() returns true and leaves the queue, the
\* DeviceState, the hardware and the streaming state as they were.
C21_Step ==
    (start \/ stop)
    => /\ c_call'.ret_flag
       /\ ~c_call'.thrown
       /\ UNCHANGED <<hackrf_vars, DeviceState, auto_gain, hw>>
       /\ UNCHANGED <<w_pc, out, ret, notified, pushes, overruns, pops>>

\* C21: start() and stop() are idempotent: called any number of times in any
\* order on a constructed HackRF source, each returns the same success value
\* (true, the device handle being open) and leaves the queue state, the
\* DeviceState and the streaming state as after the first call.
C21_StartStopIdempotent == [][C21_Step]_vars

\* stop() has returned while a work() call is copying out of a ring that
\* holds data, and the device is still streaming.
C21_Witness ==
    /\ c_call.op = "stop"
    /\ c_call.ret_flag
    /\ streaming
    /\ w_pc = "copy1"
    /\ buf_used >= MinFill

\* C22 (step): once a work() call has passed the fill threshold (w_seen > 0),
\* a later call that finds its noutput_items samples queued is not sent to
\* wait.
C22_Step ==
    (/\ backend = "hackrf"
     /\ w_pc = "check"
     /\ w_running
     /\ w_seen > 0
     /\ hackrf_unread >= noutput_items)
    => w_pc' # "wait"

\* C22: the minimum-fill threshold (at least 3 buffers queued) gates only the
\* first pull: once one work() call has proceeded past it, later calls are
\* not made to wait for the occupancy to reach 3 buffers again and proceed
\* whenever the requested samples are available.
C22_ThresholdGatesFirstPullOnly == [][C22_Step]_vars

\* C23 (step): a delivery whose length is not the slab or block size is not
\* enqueued: ring, cursors and occupancy, or the FIFO, stay as they were.
C23_Step ==
    /\ \A len \in 1..(SlabLen - 1) :
          hackrf_rx_callback_short(len)
          => UNCHANGED <<buf, buf_head, buf_used, buf_offset, samp_avail>>
    /\ \A n_samples \in {BlockSize - 1, BlockSize + 1} :
          read_task(n_samples) => UNCHANGED sample_fifo

\* C23: the producer-side ingest validates each delivered buffer's length
\* before enqueuing: a buffer whose length is not a multiple of the sample
\* stride, or does not match the slab or block size, is not copied into the
\* queue and leaves occupancy, cursors and queued samples unchanged.
C23_IngestValidatesLength == [][C23_Step]_vars

\* C24: the producer never writes the slab the consumer is reading: on the
\* HackRF source no callback overwrites a slab while work() copies out of it
\* (every access to the ring's head and occupancy being under the mutex).
C24_NoWriteIntoSlabBeingRead == backend = "hackrf" => ~w_race

C27_TwelveBitSignExtension ==
    (backend = "bladerf" /\ Len(sample_fifo) = 1)
    => /\ sample_fifo[1].re \in (0 - 2048)..2047
       /\ sample_fifo[1].im \in (0 - 2048)..2047
       /\ (sample_fifo[1].re - RawAt(0)) % 4096 = 0
       /\ (sample_fifo[1].im - RawAt(1)) % 4096 = 0
       /\ (stream = 2049 => sample_fifo[1].re = 0 - 2047)

C27_Witness ==
    /\ backend = "bladerf"
    /\ stream = 2049 + 4096
    /\ Len(sample_fifo) = 1
    /\ sample_fifo[1].re = 0 - 2047

\* |a - b|
C28_Dist(a, b) == IF a >= b THEN a - b ELSE b - a

\* C28 (step): a successful set_bb_gain(g) commits a multiple of 2 in 0..62
\* that no other such multiple is nearer to g than.
C28_Step ==
    \A g \in BbGains :
        set_bb_gain(g, TRUE)
        => /\ vga_gain' \in 0..62
           /\ vga_gain' % 2 = 0
           /\ hw'.vga = vga_gain'
           /\ \A a \in 0..62 :
                 a % 2 = 0 => C28_Dist(vga_gain', g) <= C28_Dist(a, g)
           /\ (g = 31 => vga_gain' \in {30, 32})
           /\ (g = 0 - 5 => vga_gain' = 0)
           /\ (g = 100 => vga_gain' = 62)

\* C28: gain clipping follows the stage's range: for the BB stage
\* {start 0, stop 62, step 2} a successful set_bb_gain(g) commits the
\* admissible value nearest to g: 30 or 32 for 31, 0 for -5, 62 for 100, and
\* for every g a multiple of 2 in [0, 62] at minimal distance from g.
C28_BbGainClippedToNearest == [][C28_Step]_vars

C28_Witness ==
    /\ c_call.op = "set_bb_gain"
    /\ c_call.hw_ok
    /\ vga_gain = 62
    /\ hw.vga = 62

\* The sequence numbers of the unread samples the consumer sees: from
\* _buf[_buf_head] + _buf_offset through the last filled slab.
C30_Unread ==
    [k \in 1..(buf_used * SlabLen - buf_offset) |->
        LET pos == buf_offset + k - 1
        IN  buf[(buf_head + (pos \div SlabLen)) % buf_num][(pos % SlabLen) + 1].seq]

\* Between work() calls the unread samples are consecutive samples of the
\* pushed stream, the last of them the newest sample pushed.
C30_Contiguous ==
    (backend = "hackrf" /\ w_pc = "idle" /\ buf_offset <= SlabLen)
    => \A k \in DOMAIN C30_Unread :
          C30_Unread[k] = pushes * SlabLen - Len(C30_Unread) + k

\* A callback that evicts the oldest slab leaves the read cursor at the
\* first sample of the oldest retained slab.
C30_Step ==
    (backend = "hackrf" /\ overruns' = overruns + 1)
    => (buf_offset' = 0 /\ samp_avail' = SlabLen)

\* C30: after any sequence of callbacks and work() calls, overruns included,
\* the unread samples from the read cursor through the last filled slab form
\* one contiguous run of the pushed stream ending with the newest sample, and
\* after an eviction the consumer resumes at the first sample of the oldest
\* retained slab.
C30_UnreadRunContiguous == []C30_Contiguous /\ [][C30_Step]_vars

\* C29: whatever slab count the constructor accepted, while the device
\* keeps streaming and the callback keeps delivering, every work() call of
\* the HackRF source returns.
C29_EveryWorkCallReturns ==
    (backend = "hackrf" /\ w_pc # "idle")
    ~> (w_pc = "idle" \/ ~streaming)

\* The consumer never holds the mutex while it is suspended in a wait, and
\* the producer holds it only inside its section.
C25_MutexNotHeldAsleep ==
    /\ w_pc = "wait" => mutex # "consumer"
    /\ mutex = "producer" <=> p_pc = "held"
    /\ mutex = "consumer" <=> w_pc = "locked"

\* C25: the producer never blocks indefinitely: it waits for the mutex only,
\* the consumer never holds the mutex while suspended, and so every push the
\* producer has begun completes.
C25_ProducerPushCompletes ==
    /\ []C25_MutexNotHeldAsleep
    /\ [](p_pc = "held" => ENABLED ProducerHeld)
    /\ (p_pc # "idle") ~> (p_pc = "idle")

C25_Witness ==
    /\ p_pc = "lock"
    /\ mutex = "consumer"
    /\ pushes > 0

\* C31: in the HackRF backend, while no overrun has occurred, the samples
\* the work() calls have returned so far are a prefix of the pushed stream:
\* the call that returns continues with the sample after the last one the
\* calls before it returned, each sample decoded as delivered, none skipped,
\* repeated, reordered or read from storage the producer has not filled.
C31_ReturnedIsPrefixOfPushed ==
    (/\ backend = "hackrf"
     /\ Returned
     /\ ret = noutput_items
     /\ overruns = 0)
    => /\ out = [i \in 1..noutput_items |-> Delivered(w_entry.taken + i)]
       /\ w_entry.taken + noutput_items <= pushes * SlabLen

\* C32: get_biast() reports the antenna bias state the hardware last
\* acknowledged: once the constructor has returned, and after any set_biast
\* calls whatever their hardware outcome, _biasT is the last value for which
\* hackrf_set_antenna_enable succeeded (false if none did).
C32_BiasFlagIsAcknowledgedState ==
    (backend = "hackrf" /\ c_ctor.returned) => get_biast = hw_bias

\* C33: after any sequence of HackRF gain setter calls, whatever the values,
\* stage names and hardware outcomes, the committed gains are admissible:
\* _amp_gain is 0 or 14, _lna_gain a multiple of 8 in [0, 40], _vga_gain a
\* multiple of 2 in [0, 62], and the amplifier enable the hardware last
\* acknowledged is 1 exactly when _amp_gain is 14.
C33_CommittedGainsAdmissible ==
    backend = "hackrf"
    => /\ amp_gain \in {0, 14}
       /\ lna_gain \in 0..40 /\ lna_gain % 8 = 0
       /\ vga_gain \in 0..62 /\ vga_gain % 2 = 0
       /\ hw.amp = 1 <=> amp_gain = 14

C33_Witness ==
    /\ c_call.op = "set_gain"
    /\ c_call.hw_ok
    /\ amp_gain = 14
    /\ hw.amp = 1
    /\ lna_gain = 32
    /\ vga_gain = 62

\* The queue of the HackRF data plane: cursors, fill and the queued samples.
C34_Queue == <<buf_head, buf_used, buf_offset, samp_avail, buf>>

\* C34: each HackRF setter changes at most its own cached parameter and
\* nothing in the data plane.  set_sample_rate changes only _sample_rate
\* (the bandwidth stays), set_center_freq only _center_freq, set_bandwidth
\* only _bandwidth, set_freq_corr only _freq_corr, set_gain_mode no cached
\* parameter, each gain setter only the gain of its own stage (a named call
\* only the gain of the stage it is routed to), and none of them changes
\* _buf_head, _buf_used, _buf_offset, _samp_avail or a queued sample.
C34_Step ==
    /\ (\E rate \in SampleRates, ok \in BOOLEAN : set_sample_rate(rate, ok))
       => UNCHANGED <<C34_Queue, center_freq, freq_corr, amp_gain, lna_gain,
                      vga_gain, bandwidth>>
    /\ (\E freq \in Freqs, ok \in BOOLEAN : set_center_freq(freq, ok))
       => UNCHANGED <<C34_Queue, sample_rate, freq_corr, amp_gain, lna_gain,
                      vga_gain, bandwidth>>
    /\ (\E ppm \in Ppms, ok \in BOOLEAN : set_freq_corr(ppm, ok))
       => UNCHANGED <<C34_Queue, sample_rate, center_freq, amp_gain, lna_gain,
                      vga_gain, bandwidth>>
    /\ (\E automatic \in BOOLEAN : set_gain_mode(automatic))
       => UNCHANGED <<C34_Queue, DeviceState>>
    /\ (\E bw_req \in Bandwidths, ok \in BOOLEAN : set_bandwidth(bw_req, ok))
       => UNCHANGED <<C34_Queue, sample_rate, center_freq, freq_corr,
                      amp_gain, lna_gain, vga_gain>>
    /\ (\E gain \in Gains, ok \in BOOLEAN :
           set_gain(gain, ok) \/ set_gain_name(gain, "RF", ok))
       => UNCHANGED <<C34_Queue, sample_rate, center_freq, freq_corr,
                      lna_gain, vga_gain, bandwidth>>
    /\ (\E gain \in Gains, ok \in BOOLEAN :
           set_if_gain(gain, ok) \/ set_gain_name(gain, "IF", ok))
       => UNCHANGED <<C34_Queue, sample_rate, center_freq, freq_corr,
                      amp_gain, vga_gain, bandwidth>>
    /\ (\E gain \in Gains, ok \in BOOLEAN :
           set_bb_gain(gain, ok) \/ set_gain_name(gain, "BB", ok))
       => UNCHANGED <<C34_Queue, sample_rate, center_freq, freq_corr,
                      amp_gain, lna_gain, bandwidth>>
    /\ (\E gain \in Gains, name \in GainNames, ok \in BOOLEAN :
           set_gain_name(gain, name, ok))
       => /\ UNCHANGED <<C34_Queue, sample_rate, center_freq, freq_corr,
                         bandwidth>>
          /\ \/ UNCHANGED <<lna_gain, vga_gain>>
             \/ UNCHANGED <<amp_gain, vga_gain>>
             \/ UNCHANGED <<amp_gain, lna_gain>>

C34_SettersChangeOwnFieldOnly == [][C34_Step]_vars

\* A sample rate set while samples are queued and a slab is half read.
C34_Witness ==
    /\ c_call.op = "set_sample_rate"
    /\ c_call.hw_ok
    /\ sample_rate = 1000000
    /\ bandwidth = 6000000
    /\ buf_used > 0
    /\ buf_offset > 0
    /\ samp_avail > 0

\* A _usage section that finds _usage at 0 calls hackrf_init.
C35_Init == usage = 0 /\ usage' = 1

\* A _usage section that brings _usage to 0 calls hackrf_exit.
C35_Exit == usage = 1 /\ usage' = 0

\* C35: under any interleaving of HackRF constructions, destructions and
\* get_devices() calls, hackrf_init and hackrf_exit alternate, hackrf_init
\* first: hackrf_init is called only while the library is down and brings it
\* up, hackrf_exit only while it is up and brings it down, and nothing else
\* changes the library's state; _usage is never negative; hackrf_exit is
\* never called while an instance holds an open device handle.
C35_Step ==
    backend = "hackrf"
    => /\ C35_Init => ~lib_up /\ lib_up'
       /\ C35_Exit => lib_up /\ ~lib_up' /\ alive' = 0 /\ ctors' = 0
       /\ lib_up' # lib_up => C35_Init \/ C35_Exit
       /\ usage' >= 0
       /\ alive' > 0 => lib_up'

C35_InitExitAlternate == [][C35_Step]_vars

\* The last instance has gone and hackrf_exit was called.
C35_Witness ==
    /\ backend = "hackrf"
    /\ c_ctor.returned
    /\ alive = 0
    /\ gd_calls = 0
    /\ usage = 0
    /\ ~lib_up

====
